---- MODULE Spec2Model ----
(***************************************************************************)
(* The Stockfish engine pool of backend/src/services/stockfish.ts          *)
(* (StockfishPool: initialize, createInstance, evaluate, runEvaluation,    *)
(* shutdown) and analyzeGame, as state machines.                           *)
(*                                                                         *)
(* Node runs every callback to completion, so each action below is one     *)
(* callback (an API call, a stdout 'data' event, a timer) together with    *)
(* the promise continuations it releases.                                  *)
(***************************************************************************)
EXTENDS Integers, Sequences, FiniteSets, TLC

\* new StockfishPool(2)
PoolSize == 2
\* the five entries of stockfishPaths
NumPaths == 5
\* const DEFAULT_DEPTH = 10
DEFAULT_DEPTH == 10

\* Bounds of the model: evaluate() calls on an initialized pool, evaluate()
\* calls over a pool's whole life, initialize() calls that pass the guard,
\* and bestmove lines in one buffer.
MaxReq == 5
MaxLifeReq == 1
MaxFairReq == 4
MaxCall == 1
MaxBest == 2
\* initialize() and evaluate() calls that overlap on a pool under construction.
MaxOverlap == 2
\* Bound on the plies of a game given to analyzeGame.
MaxPly == 4
\* Bound on the info lines the engine writes before a bestmove line.
MaxInfo == 2
\* Bound on the move records given to generateSummary.
MaxMoves == 2
\* The longest list of analyzeGame records the scoring loop is run on.
MaxScored == 3
\* Bound on the stdout chunks of one handshake, and of one instance.
MaxChunks == 4
\* Bound on the evaluate() calls that reach the instance whose stdout is
\* followed as text.
MaxRuns == 2
\* Bound on the invocations of the analysis handlers for one game.
MaxTrig == 2

Reqs == 1..MaxReq
Calls == 1..MaxOverlap
\* Every initialize() builds at most PoolSize instances.
Insts == 1..(PoolSize * MaxOverlap)

VARIABLES
    initialized,   \* StockfishPool.initialized
    instances,     \* StockfishPool.instances: sequence of instance ids
    created,       \* number of StockfishInstance objects built so far
    busy,          \* instance.busy
    queue,         \* instance.queue: sequence of request ids
    killed,        \* instance.process was killed by shutdown()
    quitSent,      \* 'quit' was written to instance.process.stdin
    listeners,     \* 'data' listeners runEvaluation put on instance.process.stdout
    goPending,     \* 'go' commands the engine received and has not answered
    icall,         \* the initialize() invocations in progress
    lastInit,      \* how the initialize() invocation that returned last ended
    req,           \* the evaluate() invocations
    shut,          \* shutdown() has been called
    stdinErr,      \* the 'error' event of a write to a killed process: none, pending, uncaught
    ag,            \* an analyzeGame() invocation
    fn,            \* a call of a function without side effects and its result
    loc,           \* the candidate loop of a createInstance() invocation
    procError,     \* instance.process emitted 'error' after the instance joined the pool
    ta,            \* the triggerAnalysis() invocations for a game and the game's rows
    hs,            \* the UCI handshake of a createInstance() invocation
    eng            \* one instance and the text on its process's stdout

poolVars == <<initialized, instances, created, busy, queue, killed, quitSent,
              listeners, goPending, icall, lastInit, req, shut, stdinErr>>

vars == <<poolVars, ag, fn, loc, procError, ta, hs, eng>>

----------------------------------------------------------------------------
\* Helpers on sequences.

RECURSIVE Without(_, _)
\* EventEmitter.off: the sequence s without the listener x
Without(s, x) ==
    IF s = <<>> THEN <<>>
    ELSE IF Head(s) = x THEN Tail(s)
    ELSE <<Head(s)>> \o Without(Tail(s), x)

Drop(s, n) == SubSeq(s, n + 1, Len(s))

MinOf(S) == CHOOSE x \in S : \A y \in S : x <= y

InSeq(x, s) == \E k \in 1..Len(s) : s[k] = x

----------------------------------------------------------------------------
\* Records.

NoError == [cand |-> 0, kind |-> "none"]
NoErr == [why |-> "none", paths |-> <<>>, last |-> NoError]
StockfishPaths == [k \in 1..NumPaths |-> k]

\* An initialize() invocation: where it waits (pc), the loop index i, the
\* candidate path being probed, createInstance's lastError, the instance in
\* its handshake, the handshake's output, and the evaluate() awaiting it.
NoCall == [pc |-> "none", i |-> 0, cand |-> 0, lastError |-> NoError, inst |-> 0,
           out |-> {}, waiter |-> 0]
\* An invocation that has returned or thrown.
Over == [NoCall EXCEPT !.pc = "over"]
NoResult == [res |-> "none", err |-> NoErr]

\* An evaluate() invocation: its place (new, await, queued, running, done),
\* its instance, its 30 s timer, its promise, and how often resolve and
\* reject were called; viaQueue records that it waited in a queue.
NoReq == [st |-> "new", inst |-> 0, timer |-> FALSE, outcome |-> "pending",
          resolves |-> 0, rejects |-> 0, viaQueue |-> FALSE]

\* The state as one value, so that nested calls compose.
PoolState ==
    [initialized |-> initialized, instances |-> instances, created |-> created,
     busy |-> busy, queue |-> queue, killed |-> killed,
     quitSent |-> quitSent, listeners |-> listeners, go |-> goPending,
     icall |-> icall, lastInit |-> lastInit, req |-> req, shut |-> shut,
     stdinErr |-> stdinErr]

\* The program runs on (no uncaught exception has ended it) and its state
\* becomes S.
Install(S) ==
    /\ stdinErr # "uncaught"
    /\ initialized' = S.initialized
    /\ instances' = S.instances
    /\ created' = S.created
    /\ busy' = S.busy
    /\ queue' = S.queue
    /\ killed' = S.killed
    /\ quitSent' = S.quitSent
    /\ listeners' = S.listeners
    /\ goPending' = S.go
    /\ icall' = S.icall
    /\ lastInit' = S.lastInit
    /\ req' = S.req
    /\ shut' = S.shut
    /\ stdinErr' = S.stdinErr
    /\ UNCHANGED <<ag, fn, loc, procError, ta, hs, eng>>

----------------------------------------------------------------------------
\* runEvaluation and cleanup.

\* resolve(...) of a request's promise: the first settlement decides.
Resolve(S, r) ==
    [S EXCEPT !.req[r].resolves = @ + 1,
              !.req[r].outcome = IF @ = "pending" THEN "resolved" ELSE @]

\* reject(...) of a request's promise
Reject(S, r) ==
    [S EXCEPT !.req[r].rejects = @ + 1,
              !.req[r].outcome = IF @ = "pending" THEN "rejected" ELSE @]

\* A runEvaluation that arms no timer.
RunEvaluationNoTimer(S, i, r) ==
    [S EXCEPT !.busy[i] = TRUE,
              !.req[r] = [@ EXCEPT !.st = "running", !.inst = i],
              !.listeners[i] = Append(@, r),
              !.go[i] = IF S.killed[i] THEN @ ELSE Append(@, r),
              !.stdinErr = IF S.killed[i] /\ @ = "none" THEN "pending" ELSE @]

\* runEvaluation: busy = true, arm the 30 s timer, listen on stdout, write
\* 'position fen' and 'go depth'. A killed process reads nothing: the write
\* is lost, and stdin may answer it with an 'error' event (EPIPE).
RunEvaluation(S, i, r) ==
    [S EXCEPT !.busy[i] = TRUE,
              !.req[r] = [@ EXCEPT !.st = "running", !.inst = i, !.timer = TRUE],
              !.listeners[i] = Append(@, r),
              !.go[i] = IF S.killed[i] THEN @ ELSE Append(@, r),
              !.stdinErr = IF S.killed[i] /\ @ = "none" THEN "pending" ELSE @]

\* A cleanup that leaves the queue alone.
CleanupKeepQueue(S, r) ==
    LET i == S.req[r].inst
    IN  [S EXCEPT !.req[r].timer = FALSE, !.req[r].st = "done",
                  !.listeners[i] = Without(@, r), !.busy[i] = FALSE]

\* A cleanup that clears the busy flag after it has started the next request.
CleanupBusyLast(S, r) ==
    LET i == S.req[r].inst
        S1 == [S EXCEPT !.req[r].timer = FALSE,
                        !.req[r].st = "done",
                        !.listeners[i] = Without(@, r)]
        S2 == IF S1.queue[i] = <<>> THEN S1
              ELSE RunEvaluation([S1 EXCEPT !.queue[i] = Tail(@)], i, Head(S1.queue[i]))
    IN  [S2 EXCEPT !.busy[i] = FALSE]

\* cleanup of request r's closure: clear the timer, remove the listener,
\* busy = false, then start the head of the instance's queue.
Cleanup(S, r) ==
    LET i == S.req[r].inst
        S1 == [S EXCEPT !.req[r].timer = FALSE,
                        !.req[r].st = "done",
                        !.listeners[i] = Without(@, r),
                        !.busy[i] = FALSE]
    IN  IF S1.queue[i] = <<>> THEN S1
        ELSE RunEvaluation([S1 EXCEPT !.queue[i] = Tail(@)], i, Head(S1.queue[i]))

RECURSIVE OnData(_, _, _)
\* onData of request r for a buffer holding nb lines that start with
\* 'bestmove': the loop over the lines calls cleanup() and resolve() for each.
OnData(S, r, nb) ==
    IF nb = 0 THEN S
    ELSE OnData(Resolve(Cleanup(S, r), r), r, nb - 1)

RECURSIVE Emit(_, _, _)
\* stdout.emit('data'): every listener registered when the event is emitted
\* is called, in registration order.
Emit(S, ls, nb) ==
    IF ls = <<>> THEN S
    ELSE Emit(OnData(S, Head(ls), nb), Tail(ls), nb)

\* A dispatch that queues on the last instance of the pool.
DispatchQueueLast(S, r) ==
    LET idle == {k \in 1..Len(S.instances) : ~S.busy[S.instances[k]]}
        target == IF idle # {} THEN S.instances[MinOf(idle)]
                  ELSE IF S.instances # <<>> THEN S.instances[Len(S.instances)]
                  ELSE 0
    IN  IF target = 0 THEN Reject([S EXCEPT !.req[r].st = "done"], r)
        ELSE IF S.busy[target]
        THEN [S EXCEPT !.queue[target] = Append(@, r),
                       !.req[r].st = "queued",
                       !.req[r].inst = target,
                       !.req[r].viaQueue = TRUE]
        ELSE RunEvaluation(S, target, r)

\* evaluate() from "Find available instance" on.
Dispatch(S, r) ==
    LET idle == {k \in 1..Len(S.instances) : ~S.busy[S.instances[k]]}
        target == IF idle # {} THEN S.instances[MinOf(idle)]
                  ELSE IF S.instances # <<>> THEN S.instances[1]
                  ELSE 0
    IN  IF target = 0 THEN Reject([S EXCEPT !.req[r].st = "done"], r)
        ELSE IF S.busy[target]
        THEN [S EXCEPT !.queue[target] = Append(@, r),
                       !.req[r].st = "queued",
                       !.req[r].inst = target,
                       !.req[r].viaQueue = TRUE]
        ELSE RunEvaluation(S, target, r)

----------------------------------------------------------------------------
\* initialize() and createInstance().

NextCall == MinOf({c \in Calls : icall[c].pc = "none"} \cup {MaxOverlap + 1})
NextReq == MinOf({r \in Reqs : req[r].st = "new"} \cup {MaxReq + 1})

\* createInstance up to its first await: testSpawn of the first candidate.
StartCreate(S, c, i, w) ==
    [S EXCEPT !.icall[c] = [NoCall EXCEPT !.pc = "probe", !.i = i, !.cand = 1,
                                           !.waiter = w]]

\* initialize() rejects: the evaluate() awaiting it, if any, rejects too.
FailInit(S, c, e) ==
    LET w == S.icall[c].waiter
        S1 == [S EXCEPT !.icall[c] = Over,
                        !.lastInit = [res |-> "failed", err |-> e]]
    IN  IF w = 0 THEN S1 ELSE Reject([S1 EXCEPT !.req[w].st = "done"], w)

\* An initialize() without the guard on the initialized flag.
InitializeBodyNoGuard(S, c, w) == StartCreate(S, c, 0, w)

\* initialize(): return at once when initialized, else start the loop.
InitializeBody(S, c, w) ==
    IF S.initialized
    THEN [S EXCEPT !.lastInit = [res |-> "noop", err |-> NoErr]]
    ELSE StartCreate(S, c, 0, w)

\* A candidate loop that keeps the first error instead of the last.
NextCandidateFirstError(S, c, kind) ==
    LET le == IF S.icall[c].lastError = NoError
              THEN [cand |-> S.icall[c].cand, kind |-> kind]
              ELSE S.icall[c].lastError
    IN  IF S.icall[c].cand < NumPaths
        THEN [S EXCEPT !.icall[c].cand = @ + 1, !.icall[c].lastError = le]
        ELSE FailInit(S, c, [why |-> "notfound", paths |-> StockfishPaths, last |-> le])

\* The candidate loop after a testSpawn rejected: record lastError and try
\* the next path, or throw naming the paths and the last error.
NextCandidate(S, c, kind) ==
    LET le == [cand |-> S.icall[c].cand, kind |-> kind]
    IN  IF S.icall[c].cand < NumPaths
        THEN [S EXCEPT !.icall[c].cand = @ + 1,
                       !.icall[c].lastError = le]
        ELSE FailInit(S, c, [why |-> "notfound", paths |-> StockfishPaths, last |-> le])

\* The handshake resolved: initialize() pushes the instance, and creates the
\* next one or marks the pool initialized and returns to its caller.
AfterReady(S, c) ==
    LET S1 == [S EXCEPT !.instances = Append(@, S.icall[c].inst)]
        w == S.icall[c].waiter
    IN  IF S.icall[c].i + 1 < PoolSize
        THEN StartCreate(S1, c, S.icall[c].i + 1, w)
        ELSE LET S2 == [S1 EXCEPT !.initialized = TRUE,
                                  !.icall[c] = Over,
                                  !.lastInit = [res |-> "done", err |-> NoErr]]
             IN  IF w = 0 THEN S2 ELSE Dispatch(S2, w)

\* The handshake's onData: output += data; after uciok send the options
\* and isready once; on readyok resolve the instance.
HandshakeOnData(S, c, toks) ==
    LET o1 == S.icall[c].out \cup toks
        o2 == IF "uciok" \in o1 /\ "readyok" \notin o1 /\ "_options_sent_" \notin o1
              THEN o1 \cup {"_options_sent_"} ELSE o1
    IN  IF "readyok" \in o2
        THEN AfterReady(S, c)
        ELSE [S EXCEPT !.icall[c].out = o2]

\* initialize() called directly, as one of at most calls invocations that
\* pass the guard.
InitializeOn(calls) ==
    LET S == InitializeBody(PoolState, NextCall, 0)
    IN  /\ initialized \/ NextCall <= calls
        /\ Install(S)

Initialize == InitializeOn(MaxCall)

\* testSpawn: the candidate wrote to stdout. createInstance builds the
\* instance and starts the UCI handshake.
ProbeStdout(c) ==
    /\ icall[c].pc = "probe"
    /\ Install([PoolState EXCEPT !.created = @ + 1,
                                 !.icall[c].pc = "handshake",
                                 !.icall[c].inst = created + 1,
                                 !.icall[c].out = {}])

\* testSpawn rejects: a process 'error', stderr data (onError) or a write of
\* uci that throws (kind error), or the 1 s timer.
ProbeFail(c, kind) ==
    /\ icall[c].pc = "probe"
    /\ Install(NextCandidate(PoolState, c, kind))

\* A stdout chunk during the handshake, holding the tokens toks.
HandshakeData(c, toks) ==
    /\ icall[c].pc = "handshake"
    /\ Install(HandshakeOnData(PoolState, c, toks))

\* The 30 s handshake timer: reject unless readyok was seen.
HandshakeTimeout(c) ==
    /\ icall[c].pc = "handshake"
    /\ "readyok" \notin icall[c].out
    /\ Install(FailInit(PoolState, c, [why |-> "timeout", paths |-> <<>>, last |-> NoError]))

\* The process 'error' listener of the handshake: reject(err).
HandshakeError(c) ==
    /\ icall[c].pc = "handshake"
    /\ Install(FailInit(PoolState, c, [why |-> "process", paths |-> <<>>, last |-> NoError]))

----------------------------------------------------------------------------
\* createInstance: testSpawn and the loop over stockfishPaths, for one
\* createInstance() invocation, with the listeners and the 1 s timer of every
\* probe.

\* A candidate: st is unspawned, probing (testSpawn's promise is pending),
\* returned (resolved) or failed (rejected); listening says that onError and
\* onData are attached, timer that the 1 s timer is armed, killed that
\* proc.kill() was called.
NoProbe == [st |-> "unspawned", hasResponded |-> FALSE, listening |-> FALSE,
            timer |-> FALSE, killed |-> FALSE]

\* What proc.stdin.write('uci\n') does for a candidate: the write is taken
\* (ok), it throws (throws), or it fails later with an 'error' event on
\* proc.stdin (epipe), as for a program that exits without reading.
WriteOutcomes == {"ok", "throws", "epipe"}

\* cand: the path being tried (0 before the loop); result: none, returned
\* (the loop left with spawnedProcess set) or thrown; stdin: what the write
\* to each candidate does; crashed: an 'error' event nobody listens to has
\* ended the program.
NoLocator == [cand |-> 0, p |-> [k \in 1..NumPaths |-> NoProbe],
              spawnedProcess |-> 0, lastError |-> NoError, result |-> "none",
              stdin |-> [k \in 1..NumPaths |-> "ok"], crashed |-> FALSE]

\* cleanup of testSpawn: remove onError and onData.
ProbeCleanup(L, k) == [L EXCEPT !.p[k].listening = FALSE]

\* testSpawn(sfPath) up to the return of its promise: spawn, attach the
\* listeners, write uci (a write that throws is caught: cleanup, reject),
\* arm the timer.
TestSpawn(L, k) ==
    LET L1 == [L EXCEPT !.cand = k,
                        !.p[k] = [NoProbe EXCEPT !.st = "probing",
                                                 !.listening = TRUE]]
        L2 == IF L.stdin[k] = "throws"
              THEN [ProbeCleanup(L1, k) EXCEPT !.p[k].st = "failed"]
              ELSE L1
    IN  [L2 EXCEPT !.p[k].timer = TRUE]

RECURSIVE TryPath(_, _)
RECURSIVE LoopCatch(_, _, _)

\* A loop that gives up at the first candidate that fails.
LoopCatchRaise(L, k, kind) ==
    [L EXCEPT !.lastError = [cand |-> k, kind |-> kind], !.result = "thrown"]

\* catch (err) { lastError = err; continue } and, after the last path, the
\* throw of createInstance.
LoopCatch(L, k, kind) ==
    LET L1 == [L EXCEPT !.lastError = [cand |-> k, kind |-> kind]]
    IN  IF k < NumPaths THEN TryPath(L1, k + 1)
        ELSE [L1 EXCEPT !.result = "thrown"]

\* One iteration of the loop up to its await: testSpawn(sfPath), and the
\* catch clause at once when the promise comes back rejected.
TryPath(L, k) ==
    LET L1 == TestSpawn(L, k)
    IN  IF L1.p[k].st = "failed" THEN LoopCatch(L1, k, "write") ELSE L1

\* reject(err) of a probe: only a pending promise is settled, and the loop
\* goes on in its catch clause.
ProbeReject(L, k, kind) ==
    IF L.p[k].st = "probing"
    THEN LoopCatch([L EXCEPT !.p[k].st = "failed"], k, kind)
    ELSE L

\* resolve(proc) of a probe: spawnedProcess = proc; break.
ProbeResolve(L, k) ==
    IF L.p[k].st = "probing"
    THEN [L EXCEPT !.p[k].st = "returned", !.spawnedProcess = k,
                   !.result = "returned"]
    ELSE L

\* onError: the process 'error' event or data on stderr.
ProbeOnError(L, k, kind) == ProbeReject(ProbeCleanup(L, k), k, kind)

\* onData: the first data on stdout.
ProbeOnData(L, k) ==
    IF ~L.p[k].hasResponded
    THEN ProbeResolve(ProbeCleanup([L EXCEPT !.p[k].hasResponded = TRUE], k), k)
    ELSE L

\* A 1 s timer that does not look at hasResponded.
ProbeOnTimerAlways(L, k) ==
    LET L1 == [L EXCEPT !.p[k].timer = FALSE]
    IN  ProbeReject([ProbeCleanup(L1, k) EXCEPT !.p[k].killed = TRUE], k, "timeout")

\* The 1 s timer: unless the process has responded, cleanup, kill, reject.
ProbeOnTimer(L, k) ==
    LET L1 == [L EXCEPT !.p[k].timer = FALSE]
    IN  IF ~L1.p[k].hasResponded
        THEN ProbeReject([ProbeCleanup(L1, k) EXCEPT !.p[k].killed = TRUE], k, "timeout")
        ELSE L1

\* createInstance() is called in an environment where the writes to the
\* candidates do what w says: the loop spawns the first candidate.
Locate(w) ==
    /\ loc.cand = 0
    /\ loc' = TryPath([loc EXCEPT !.stdin = w], 1)
    /\ UNCHANGED <<poolVars, ag, fn, procError, ta, hs, eng>>

\* Candidate k writes to stdout while the probe listens.
LocStdout(k) ==
    /\ ~loc.crashed
    /\ loc.p[k].listening
    /\ loc' = ProbeOnData(loc, k)
    /\ UNCHANGED <<poolVars, ag, fn, procError, ta, hs, eng>>

\* Candidate k writes to stderr (kind stderr) or its process reports an
\* error (kind error) while the probe listens.
LocError(k, kind) ==
    /\ ~loc.crashed
    /\ loc.p[k].listening
    /\ loc' = ProbeOnError(loc, k, kind)
    /\ UNCHANGED <<poolVars, ag, fn, procError, ta, hs, eng>>

\* The 1 s timer of candidate k fires.
LocTimer(k) ==
    /\ ~loc.crashed
    /\ loc.p[k].timer
    /\ loc' = ProbeOnTimer(loc, k)
    /\ UNCHANGED <<poolVars, ag, fn, procError, ta, hs, eng>>

\* The write to candidate k fails after the fact: proc.stdin emits 'error',
\* which has no listener, and the uncaught exception ends the program.
LocStdinError(k) ==
    /\ ~loc.crashed
    /\ loc.p[k].st # "unspawned"
    /\ loc.stdin[k] = "epipe"
    /\ loc' = [loc EXCEPT !.crashed = TRUE]
    /\ UNCHANGED <<poolVars, ag, fn, procError, ta, hs, eng>>

----------------------------------------------------------------------------
\* evaluate(), engine output, timers, shutdown().

\* evaluate(fen, depth): on an initialized pool the call dispatches at once;
\* otherwise it first awaits an initialize() of its own.
EvaluateBody(S, r, c) ==
    IF S.initialized
    THEN Dispatch(S, r)
    ELSE InitializeBody([S EXCEPT !.req[r].st = "await"], c, r)

EvaluateOn(limit, calls) ==
    /\ NextReq <= limit
    /\ initialized \/ NextCall <= calls
    /\ Install(EvaluateBody(PoolState, NextReq, NextCall))

Evaluate(limit) == EvaluateOn(limit, MaxCall)

\* A stdout chunk of instance i in which the engine answers the nb oldest
\* 'go' commands with a bestmove line each.
EngineData(i, nb) ==
    /\ nb \in 1..MaxBest
    /\ nb <= Len(goPending[i])
    /\ Install(Emit([PoolState EXCEPT !.go[i] = Drop(@, nb)], listeners[i], nb))

\* The 30 s timer of a running evaluation: cleanup(); reject(...).
TimeoutBody(S, r) == Reject(Cleanup(S, r), r)

EvalTimeout(r) ==
    /\ req[r].timer
    /\ Install(TimeoutBody(PoolState, r))

\* shutdown(): quit and kill every instance, empty the pool.
ShutdownBody(S) ==
    [S EXCEPT !.quitSent = [i \in Insts |-> @[i] \/ InSeq(i, S.instances)],
              !.killed = [i \in Insts |-> @[i] \/ InSeq(i, S.instances)],
              !.instances = <<>>,
              !.initialized = FALSE,
              !.shut = TRUE]

Shutdown == Install(ShutdownBody(PoolState))

\* The stdin of a killed process emits 'error' for the commands runEvaluation
\* wrote to it: nothing listens, and the uncaught exception ends the program.
StdinError ==
    /\ stdinErr = "pending"
    /\ Install([PoolState EXCEPT !.stdinErr = "uncaught"])

\* The 'error' listener createInstance put on the process, called after the
\* handshake has resolved: it logs the error and calls reject(err) of the
\* handshake's promise, which is settled already.
ProcessError(i) ==
    /\ stdinErr # "uncaught"
    /\ InSeq(i, instances)
    /\ ~procError[i]
    /\ procError' = [procError EXCEPT ![i] = TRUE]
    /\ UNCHANGED <<poolVars, ag, fn, loc, ta, hs, eng>>

----------------------------------------------------------------------------
\* runEvaluation's onData: the evaluation built from the engine's lines.
\* A line is the sequence of its tokens, line.split(' ').

NoFn == [op |-> "none", arg |-> <<>>, out |-> <<>>]

\* parseInt on the numerals the engine lines below hold.
ParseInt(t) ==
    CASE t = "0" -> 0 [] t = "5" -> 5 [] t = "10" -> 10 [] t = "1" -> 1
      [] t = "20" -> 20 [] t = "-35" -> -35 [] t = "99" -> 99 [] t = "-3" -> -3
IsDigits(t) == t \in {"0", "1", "5", "10", "20", "99"}
IsSigned(t) == IsDigits(t) \/ t \in {"-35", "-3"}

\* The tokens that end with the text a regular expression looks for.
EndsWithDepth(t) == t \in {"depth", "seldepth"}
EndsWithPv(t) == t \in {"pv", "multipv"}

\* line.match(/depth (\d+)/): the index of the number, 0 without a match
DepthMatch(l) ==
    LET K == {k \in 1..(Len(l) - 1) : EndsWithDepth(l[k]) /\ IsDigits(l[k + 1])}
    IN  IF K = {} THEN 0 ELSE MinOf(K) + 1

\* line.match(/score (cp|mate) (-?\d+)/): the index of cp or mate, 0 without
ScoreMatch(l) ==
    LET K == {k \in 1..(Len(l) - 2) : /\ l[k] = "score"
                                       /\ l[k + 1] \in {"cp", "mate"}
                                       /\ IsSigned(l[k + 2])}
    IN  IF K = {} THEN 0 ELSE MinOf(K) + 1

\* line.match(/pv (.+)/): the index after the first "pv " that is followed by
\* at least one character, 0 without a match
PvMatch(l) ==
    LET K == {k \in 1..(Len(l) - 1) : /\ EndsWithPv(l[k])
                                       /\ (k + 1 < Len(l) \/ l[k + 1] # "")}
    IN  IF K = {} THEN 0 ELSE MinOf(K) + 1

\* A score that is left as the engine reports it.
NormalizeNever(value, side) == value

\* "Normalize to white's perspective": fen.split(' ')[1] === 'b' negates.
Normalize(value, side) == IF side = "b" THEN -value ELSE value

\* "Fallback for immediate bestmove"
Fallback(bestMove) ==
    [type |-> "cp", value |-> 0, bestMove |-> bestMove, pv |-> <<bestMove>>]

\* No evaluation: let evaluation = null.
NoEval == [type |-> "none", value |-> 0, bestMove |-> "", pv |-> <<>>]

\* The body of the loop for an 'info depth' line: the evaluation after it.
InfoLine(ev, l, depth, side) ==
    LET dm == DepthMatch(l)
        currentDepth == IF dm = 0 THEN 0 ELSE ParseInt(l[dm])
        sm == ScoreMatch(l)
        pm == PvMatch(l)
    IN  IF currentDepth >= depth - 2 /\ sm # 0
        THEN [type |-> l[sm],
              value |-> Normalize(ParseInt(l[sm + 1]), side),
              bestMove |-> IF pm = 0 THEN "" ELSE l[pm],
              pv |-> IF pm = 0 THEN <<>> ELSE SubSeq(l, pm, Len(l))]
        ELSE ev

\* The body of the loop for a 'bestmove' line: what resolve() is given.
BestLine(ev, l) ==
    LET bestMove == l[2]
    IN  IF ev # NoEval THEN [ev EXCEPT !.bestMove = bestMove]
        ELSE Fallback(bestMove)

\* One runEvaluation on an instance with an empty queue, as its callbacks
\* see it: ev is the evaluation variable, promise and result the state and
\* value of the request's promise, alias says that the value is the object
\* ev holds, threw that an onData call has thrown; listening says that onData
\* is attached to stdout, timer that the 30 s timer is armed, busy is the
\* field of the instance; seen counts the 'data' events stdout has emitted,
\* killed says that shutdown() has killed the process, exited that an
\* exception nothing caught has ended the program.
NoParse == [ev |-> NoEval, promise |-> "pending", result |-> NoEval,
            alias |-> FALSE, threw |-> FALSE, listening |-> TRUE,
            timer |-> TRUE, busy |-> TRUE, seen |-> 0, killed |-> FALSE,
            exited |-> FALSE]

\* cleanup() with nothing queued: clear the timer, remove onData,
\* busy = false.
ParseCleanup(P) ==
    [P EXCEPT !.timer = FALSE, !.listening = FALSE, !.busy = FALSE]

RECURSIVE ParseOutput(_, _, _, _)
\* for (const line of lines) of one onData call, over output.split('\n'),
\* the piece after the last newline included. An 'info depth' line may put
\* a new object in ev; a 'bestmove' line calls cleanup(), sets bestMove of
\* the object ev holds, which may be the value the promise has, and calls
\* resolve() with that object, or with a new one when there is none, and the
\* loop goes on; on a piece that is just 'bestmove' line.split(' ')[1].trim()
\* throws before cleanup(): the call ends there and nothing catches the
\* exception.
ParseOutput(P, lines, depth, side) ==
    IF lines = <<>> THEN P
    ELSE LET l == Head(lines)
         IN  IF Len(l) >= 2 /\ l[1] = "info" /\ l[2] = "depth"
             THEN LET dm == DepthMatch(l)
                      currentDepth == IF dm = 0 THEN 0 ELSE ParseInt(l[dm])
                      assigns == currentDepth >= depth - 2 /\ ScoreMatch(l) # 0
                  IN  ParseOutput([P EXCEPT !.ev = InfoLine(@, l, depth, side),
                                            !.alias = @ /\ ~assigns],
                                  Tail(lines), depth, side)
             ELSE IF l[1] = "bestmove"
             THEN IF Len(l) < 2 THEN [P EXCEPT !.threw = TRUE, !.exited = TRUE]
                  ELSE LET P0 == ParseCleanup(P)
                           P1 == IF P0.ev # NoEval
                                 THEN [P0 EXCEPT !.ev.bestMove = l[2],
                                                 !.result =
                                                     IF P0.alias
                                                     THEN [@ EXCEPT !.bestMove = l[2]]
                                                     ELSE @]
                                 ELSE P0
                           P2 == IF P1.promise = "pending"
                                 THEN [P1 EXCEPT !.promise = "resolved",
                                                 !.result = BestLine(P.ev, l),
                                                 !.alias = P.ev # NoEval]
                                 ELSE P1
                       IN  ParseOutput(P2, Tail(lines), depth, side)
             ELSE ParseOutput(P, Tail(lines), depth, side)

\* Lines an engine writes during a search.
InfoLines ==
    { <<"info", "depth", "10", "score", "cp", "20", "pv", "e2e4", "e7e5">>,
      <<"info", "depth", "10", "seldepth", "10", "multipv", "1", "score", "mate", "-3",
        "pv", "d2d4">>,
      <<"info", "depth", "10", "score", "cp", "-35">>,
      <<"info", "depth", "5", "score", "cp", "99", "pv", "a2a3">>,
      <<"info", "depth", "10", "currmove", "e2e4", "currmovenumber", "1">>,
      <<"info", "string", "hello">> }
BestLines == { <<"bestmove", "e2e4", "ponder", "e7e5">>, <<"bestmove", "d2d4">> }
\* Search depths asked for: DEFAULT_DEPTH and a shallow one.
Depths == {10, 5}
Sides == {"w", "b"}

RECURSIVE SeqsUpTo(_, _)
\* The sequences over S of length at most n
SeqsUpTo(S, n) ==
    IF n = 0 THEN {<<>>}
    ELSE LET P == SeqsUpTo(S, n - 1)
         IN  P \cup {Append(q, x) : q \in P, x \in S}

\* The first two characters of a move: its square of origin.
Origin(move) == IF move = "e2e4" THEN "e2" ELSE "d2"

\* What the first data event may hold of the bestmove line: all of it, or
\* its beginning up to 'bestmove', 'bestmove ' or the middle of the move.
FirstPieces(best) ==
    {best, <<"bestmove">>, <<"bestmove", "">>, <<"bestmove", Origin(best[2])>>}

\* output.split('\n') at each data event of the search a: the info lines
\* with the first piece of the bestmove line, and, when that piece was not
\* the whole line, the whole output, whose last piece is empty.
Deliveries(a) ==
    LET info == SubSeq(a.lines, 1, Len(a.lines) - 1)
        best == a.lines[Len(a.lines)]
    IN  IF a.piece = best THEN <<Append(a.lines, <<"">>)>>
        ELSE <<Append(info, a.piece), Append(a.lines, <<"">>)>>

\* runEvaluation(instance, fen, depth, resolve, reject) on an idle instance:
\* busy = true, the timer armed, onData attached, position and go written.
\* The engine will write the info lines and the bestmove line, and stdout
\* will hand them over in one or two 'data' events.
ParseRunEvaluation(info, best, piece, depth, side) ==
    /\ fn.op = "none"
    /\ fn' = [op |-> "onData",
              arg |-> [lines |-> Append(info, best), piece |-> piece,
                       depth |-> depth, side |-> side],
              out |-> NoParse]
    /\ UNCHANGED <<poolVars, ag, loc, procError, ta, hs, eng>>

\* One 'data' event of stdout: onData runs if it is still attached. When it
\* throws, nothing catches the exception: the program ends, unless the host
\* it runs in survives an uncaught exception.
ParseEngineOutput(survives) ==
    /\ fn.op = "onData"
    /\ ~fn.out.exited
    /\ fn.out.seen < Len(Deliveries(fn.arg))
    /\ LET P == [fn.out EXCEPT !.seen = @ + 1]
           P1 == IF P.listening
                 THEN ParseOutput(P, Deliveries(fn.arg)[P.seen], fn.arg.depth,
                                  fn.arg.side)
                 ELSE P
       IN  /\ ~survives => P1.exited
           /\ fn' = [fn EXCEPT !.out = [P1 EXCEPT !.exited = @ /\ ~survives]]
    /\ UNCHANGED <<poolVars, ag, loc, procError, ta, hs, eng>>

\* The 30 s timer of the request fires: cleanup(); reject(...).
ParseTimeout ==
    /\ fn.op = "onData"
    /\ ~fn.out.exited
    /\ fn.out.timer
    /\ fn' = [fn EXCEPT !.out =
                 [ParseCleanup(@) EXCEPT !.promise = IF @ = "pending"
                                                    THEN "rejected" ELSE @]]
    /\ UNCHANGED <<poolVars, ag, loc, procError, ta, hs, eng>>

\* shutdown(): quit is written and the process killed; the listener and the
\* timer of the request stay as they are, and what the engine had written
\* may still reach stdout.
ParseShutdown ==
    /\ fn.op = "onData"
    /\ ~fn.out.exited
    /\ ~fn.out.killed
    /\ fn' = [fn EXCEPT !.out.killed = TRUE]
    /\ UNCHANGED <<poolVars, ag, loc, procError, ta, hs, eng>>

----------------------------------------------------------------------------
\* runEvaluation's onData on the text of the stdout chunks.

RECURSIVE SplitOn(_, _)
\* String.prototype.split(sep) for a separator of one character: the pieces
\* of the text, the last one being what follows the last separator.
SplitOn(text, sep) ==
    LET K == {k \in 1..Len(text) : text[k] = sep}
    IN  IF K = {} THEN <<text>>
        ELSE <<SubSeq(text, 1, MinOf(K) - 1)>>
                 \o SplitOn(SubSeq(text, MinOf(K) + 1, Len(text)), sep)

RECURSIVE Word(_)
\* The string of a sequence of characters.
Word(chars) == IF chars = <<>> THEN "" ELSE Head(chars) \o Word(Tail(chars))

\* line.split(' ') as strings
Tokens(line) ==
    LET ps == SplitOn(line, " ") IN [k \in 1..Len(ps) |-> Word(ps[k])]

\* output.split('\n'), every line as its tokens
TokenLines(output) ==
    LET ls == SplitOn(output, "\n") IN [k \in 1..Len(ls) |-> Tokens(ls[k])]

\* What an engine writes for a search: a scored line and the bestmove line,
\* or the bestmove line at once.
ScoredStream ==
    <<"i", "n", "f", "o", " ", "d", "e", "p", "t", "h", " ", "1", "0", " ",
      "s", "c", "o", "r", "e", " ", "c", "p", " ", "-", "3", "5", " ", "p",
      "v", " ", "e", "2", "e", "4", "\n", "b", "e", "s", "t", "m", "o",
      "v", "e", " ", "e", "2", "e", "4", "\n">>
ImmediateStream ==
    <<"b", "e", "s", "t", "m", "o", "v", "e", " ", "d", "2", "d", "4",
      "\n">>
Streams == {ScoredStream, ImmediateStream}

Runs == 1..MaxRuns

\* An evaluate() call on the instance: st is new, queued, running or done;
\* side is the side to move of its fen; output and ev are the output and
\* evaluation variables of its runEvaluation closure, listening says that
\* its onData is attached to stdout, timer that its 30 s timer is armed;
\* promise and result are the state and value of the returned promise,
\* alias says that the value is the object the evaluation variable holds,
\* threw says that its onData has thrown, answer is what the engine wrote
\* for its go command.
NoRun == [st |-> "new", side |-> "w", output |-> <<>>, ev |-> NoEval,
          listening |-> FALSE, timer |-> FALSE, promise |-> "pending",
          result |-> NoEval, alias |-> FALSE, threw |-> FALSE,
          answer |-> <<>>]

\* The instance: busy and queue are its fields, killed says that shutdown()
\* has killed its process, go holds the requests whose go command the engine
\* has not answered, pipe the text the engine has written and stdout has not
\* delivered, delivered the number of 'data' events so far, stdinErr the
\* 'error' event of a write to the killed process: none, pending, or
\* uncaught (nothing listens: the exception has ended the program), exited
\* says that an exception thrown by a listener of stdout, which nothing
\* catches either, has ended the program.
NoEngine == [busy |-> FALSE, queue |-> <<>>, killed |-> FALSE, go |-> <<>>,
             pipe |-> <<>>, delivered |-> 0, stdinErr |-> "none",
             exited |-> FALSE, run |-> [r \in Runs |-> NoRun]]

\* The program is running: no uncaught exception has ended it.
Alive(E) == E.stdinErr # "uncaught" /\ ~E.exited

\* runEvaluation for request r: busy = true, arm the timer, attach onData,
\* write position and go. A killed process reads nothing: the write is lost,
\* and stdin may answer it with an 'error' event (EPIPE).
RunEvaluationText(E, r) ==
    [E EXCEPT !.busy = TRUE,
              !.run[r] = [@ EXCEPT !.st = "running", !.timer = TRUE,
                                   !.listening = TRUE],
              !.go = IF E.killed THEN @ ELSE Append(@, r),
              !.stdinErr = IF E.killed /\ @ = "none" THEN "pending" ELSE @]

\* cleanup of request r: clear the timer, remove onData, busy = false, then
\* runEvaluation for the head of the queue.
CleanupText(E, r) ==
    LET E1 == [E EXCEPT !.run[r].timer = FALSE, !.run[r].listening = FALSE,
                        !.run[r].st = "done", !.busy = FALSE]
    IN  IF E1.queue = <<>> THEN E1
        ELSE RunEvaluationText([E1 EXCEPT !.queue = Tail(@)], Head(E1.queue))

\* resolve(value) and reject(err) of request r: the first settlement decides;
\* shared says that value is the object the evaluation variable holds.
SettleText(E, r, how, value, shared) ==
    IF E.run[r].promise = "pending"
    THEN [E EXCEPT !.run[r].promise = how, !.run[r].result = value,
                   !.run[r].alias = shared]
    ELSE E

RECURSIVE LinesLoop(_, _, _)
\* for (const line of lines) in the onData of request r. An 'info depth'
\* line may put a new object in the evaluation variable; a 'bestmove' line
\* calls cleanup(), sets bestMove of the object the variable holds, which
\* may be the value the promise has, and calls resolve() with that object,
\* or with a new one when there is none, and the loop goes on; on a line
\* that is just 'bestmove' line.split(' ')[1].trim() throws before
\* cleanup(): the callback ends there and nothing catches the exception.
LinesLoop(E, r, lines) ==
    IF lines = <<>> THEN E
    ELSE LET l == Head(lines)
         IN  IF Len(l) >= 2 /\ l[1] = "info" /\ l[2] = "depth"
             THEN LET dm == DepthMatch(l)
                      currentDepth == IF dm = 0 THEN 0 ELSE ParseInt(l[dm])
                      assigns == currentDepth >= DEFAULT_DEPTH - 2 /\ ScoreMatch(l) # 0
                  IN  LinesLoop([E EXCEPT !.run[r].ev =
                                     InfoLine(@, l, DEFAULT_DEPTH, E.run[r].side),
                                          !.run[r].alias = @ /\ ~assigns],
                                r, Tail(lines))
             ELSE IF l[1] = "bestmove"
             THEN IF Len(l) < 2 THEN [E EXCEPT !.run[r].threw = TRUE, !.exited = TRUE]
                  ELSE LET E1 == CleanupText(E, r)
                           ev == E1.run[r].ev
                           E2 == IF ev # NoEval
                                 THEN [E1 EXCEPT !.run[r].ev.bestMove = l[2],
                                                 !.run[r].result =
                                                     IF E1.run[r].alias
                                                     THEN [@ EXCEPT !.bestMove = l[2]]
                                                     ELSE @]
                                 ELSE E1
                       IN  LinesLoop(SettleText(E2, r, "resolved", BestLine(ev, l),
                                                ev # NoEval),
                                     r, Tail(lines))
             ELSE LinesLoop(E, r, Tail(lines))

\* onData(data) of request r: output += data, then the loop over
\* output.split('\n').
OnDataText(E, r, data) ==
    LET E1 == [E EXCEPT !.run[r].output = @ \o data]
    IN  LinesLoop(E1, r, TokenLines(E1.run[r].output))

RECURSIVE EmitText(_, _, _)
\* stdout.emit('data', data): the listeners attached when the event is
\* emitted are called in the order they were attached, unless one of them
\* was removed meanwhile; an exception a listener throws ends the emit.
EmitText(E, ls, data) ==
    IF ls = <<>> THEN E
    ELSE LET r == Head(ls)
             E1 == IF E.run[r].listening THEN OnDataText(E, r, data) ELSE E
         IN  IF E1.exited THEN E1
             ELSE EmitText(E1, Tail(ls), data)

RECURSIVE ListenersFrom(_, _)
\* The requests whose onData is attached, in the order of their calls.
ListenersFrom(E, r) ==
    IF r > MaxRuns THEN <<>>
    ELSE (IF E.run[r].listening THEN <<r>> ELSE <<>>) \o ListenersFrom(E, r + 1)

NextRun == MinOf({r \in Runs : eng.run[r].st = "new"} \cup {MaxRuns + 1})

\* evaluate(fen, DEFAULT_DEPTH) reaches the instance, for a position with
\* the given side to move: the instance is idle and is the first such, or
\* every instance is busy and this one is the first of the pool.
EvaluateText(side) ==
    /\ Alive(eng)
    /\ NextRun <= MaxRuns
    /\ ~eng.killed
    /\ LET r == NextRun
           E == [eng EXCEPT !.run[r].side = side]
       IN  eng' = IF E.busy
                  THEN [E EXCEPT !.queue = Append(@, r), !.run[r].st = "queued"]
                  ELSE RunEvaluationText(E, r)
    /\ UNCHANGED <<poolVars, ag, fn, loc, procError, ta, hs>>

\* The engine answers the oldest go command it has read.
EngineWrites(stream) ==
    /\ Alive(eng)
    /\ eng.go # <<>>
    /\ ~eng.killed
    /\ eng' = [eng EXCEPT !.go = Tail(@), !.pipe = @ \o stream,
                          !.run[Head(eng.go)].answer = stream]
    /\ UNCHANGED <<poolVars, ag, fn, loc, procError, ta, hs>>

\* The lengths of the chunks stdout delivers, when it does not deliver all
\* the pending text: up to the end of 'bestmove', of 'bestmove ', of
\* 'bestmove d2', of 'info depth 10 score cp -3' and of the info line.
ChunkSizes == {8, 9, 11, 25, 35}

\* stdout delivers the first n characters of the pending text as one chunk,
\* one of at most MaxChunks. When a listener throws, nothing catches the
\* exception: the program ends, unless the host it runs in survives an
\* uncaught exception.
StdoutData(n, survives) ==
    /\ Alive(eng)
    /\ n \in 1..Len(eng.pipe)
    /\ eng.delivered < MaxChunks
    /\ LET E1 == EmitText([eng EXCEPT !.pipe = SubSeq(@, n + 1, Len(@)),
                                      !.delivered = @ + 1],
                          ListenersFrom(eng, 1), SubSeq(eng.pipe, 1, n))
       IN  /\ ~survives => E1.exited
           /\ eng' = [E1 EXCEPT !.exited = @ /\ ~survives]
    /\ UNCHANGED <<poolVars, ag, fn, loc, procError, ta, hs>>

\* The 30 s timer of request r fires: cleanup(); reject(...).
TimeoutText(r) ==
    /\ Alive(eng)
    /\ eng.run[r].timer
    /\ eng' = SettleText(CleanupText(eng, r), r, "rejected", NoEval, FALSE)
    /\ UNCHANGED <<poolVars, ag, fn, loc, procError, ta, hs>>

\* shutdown(): quit is written and the process killed; the pool forgets the
\* instance, whose listeners, timers and queue stay as they are.
ShutdownText ==
    /\ Alive(eng)
    /\ ~eng.killed
    /\ eng' = [eng EXCEPT !.killed = TRUE]
    /\ UNCHANGED <<poolVars, ag, fn, loc, procError, ta, hs>>

\* The stdin of the killed process emits 'error' for the commands
\* runEvaluation wrote to it: nothing listens, and the uncaught exception
\* ends the program.
StdinErrorText ==
    /\ Alive(eng)
    /\ eng.stdinErr = "pending"
    /\ eng' = [eng EXCEPT !.stdinErr = "uncaught"]
    /\ UNCHANGED <<poolVars, ag, fn, loc, procError, ta, hs>>

----------------------------------------------------------------------------
\* createInstance: the UCI handshake on the text of the stdout chunks.
\* A text is the sequence of its characters.

\* String.prototype.includes
Includes(text, pat) ==
    \E k \in 0..(Len(text) - Len(pat)) : SubSeq(text, k + 1, k + Len(pat)) = pat

UciOk == <<"u", "c", "i", "o", "k">>
ReadyOk == <<"r", "e", "a", "d", "y", "o", "k">>
\* The marker '_options_sent_' the handshake appends to its own buffer; no
\* engine text below holds an underscore, so it is kept as one character.
OptionsSent == <<"_options_sent_">>

\* The handshake of a spawned process: started says that the executor of
\* the promise has run (listeners attached, uci written, timer armed);
\* output is the listener's buffer, chunks the stdout chunks it was called
\* with, wrote the commands written to stdin with the number of the chunk in
\* whose callback they were written (0: before any chunk), readyAt the chunk
\* on which the listener was removed and resolve(instance) called (0: not
\* yet), timer the 30 s timer, promise the state of the returned promise.
NoHandshake ==
    [started |-> FALSE, output |-> <<>>, chunks |-> <<>>, wrote |-> <<>>,
     readyAt |-> 0, timer |-> FALSE, promise |-> "pending"]

\* resolve(instance) and reject(err): the first settlement decides.
HandshakeSettle(h, how) ==
    [h EXCEPT !.promise = IF @ = "pending" THEN how ELSE @]

\* The executor: attach onData and the stderr and 'error' listeners, write
\* uci, arm the 30 s timer.
HandshakeExecutor(h) ==
    [h EXCEPT !.started = TRUE, !.wrote = <<[cmd |-> "uci", at |-> 0]>>,
              !.timer = TRUE]

\* The onData listener of the handshake for one chunk.
HandshakeChunk(h, data) ==
    LET k == Len(h.chunks) + 1
        o1 == h.output \o data
        send == /\ Includes(o1, UciOk)
                /\ ~Includes(o1, ReadyOk)
                /\ ~Includes(o1, OptionsSent)
        o2 == IF send THEN o1 \o OptionsSent ELSE o1
        w2 == IF send
              THEN h.wrote \o
                   <<[cmd |-> "setoption name Threads value 1", at |-> k],
                     [cmd |-> "setoption name Hash value 128", at |-> k],
                     [cmd |-> "isready", at |-> k]>>
              ELSE h.wrote
        h2 == [h EXCEPT !.output = o2, !.wrote = w2, !.chunks = Append(@, data)]
    IN  IF Includes(o2, ReadyOk)
        THEN HandshakeSettle([h2 EXCEPT !.readyAt = k], "resolved")
        ELSE h2

\* Pieces of engine output as stdout may deliver them.
Fragments ==
    {<<"u", "c", "i", "o", "k", "\n">>, <<"u", "c", "i">>, <<"o", "k", "\n">>,
     <<"r", "e", "a", "d", "y", "o", "k", "\n">>, <<"r", "e", "a", "d", "y">>}

\* createInstance reaches the handshake of the process it has spawned.
HandshakeStart ==
    /\ ~hs.started
    /\ hs' = HandshakeExecutor(hs)
    /\ UNCHANGED <<poolVars, ag, fn, loc, procError, ta, eng>>

\* A stdout chunk while onData is attached, one of at most MaxChunks.
HandshakeStdout(data) ==
    /\ hs.started
    /\ hs.readyAt = 0
    /\ Len(hs.chunks) < MaxChunks
    /\ hs' = HandshakeChunk(hs, data)
    /\ UNCHANGED <<poolVars, ag, fn, loc, procError, ta, eng>>

\* The 30 s timer fires: reject unless the buffer holds readyok.
HandshakeDeadline ==
    /\ hs.timer
    /\ hs' = LET h == [hs EXCEPT !.timer = FALSE]
             IN  IF ~Includes(h.output, ReadyOk)
                 THEN HandshakeSettle(h, "rejected") ELSE h
    /\ UNCHANGED <<poolVars, ag, fn, loc, procError, ta, eng>>

\* The process emits 'error': the listener logs it and calls reject(err).
HandshakeProcessError ==
    /\ hs.started
    /\ hs' = HandshakeSettle(hs, "rejected")
    /\ UNCHANGED <<poolVars, ag, fn, loc, procError, ta, eng>>

----------------------------------------------------------------------------
\* services/analyzer.ts: classifyMove, getGamePhase, generateSummary.

\* Thresholds in centipawns
BLUNDER_THRESHOLD == 200
MISTAKE_THRESHOLD == 100
INACCURACY_THRESHOLD == 50

Abs(x) == IF x < 0 THEN 0 - x ELSE x

\* A classifyMove that measures every improvement from White's side.
ClassifyMoveAsWhite(cpLoss, isBestMove, evalBefore, evalAfter, isWhite) ==
    IF cpLoss >= BLUNDER_THRESHOLD THEN "blunder"
    ELSE IF cpLoss >= MISTAKE_THRESHOLD THEN "mistake"
    ELSE IF cpLoss >= INACCURACY_THRESHOLD THEN "inaccuracy"
    ELSE IF isBestMove
    THEN LET improvement == evalAfter - evalBefore
         IN  IF improvement > 80 /\ Abs(evalBefore) < 200 THEN "brilliant"
             ELSE IF improvement > 40 THEN "great"
             ELSE "best"
    ELSE IF cpLoss < 15 THEN "excellent"
    ELSE "good"

\* A classifyMove that grades the improvement of any move, best or not.
ClassifyMoveAnyMove(cpLoss, isBestMove, evalBefore, evalAfter, isWhite) ==
    LET improvement == IF isWhite THEN evalAfter - evalBefore
                       ELSE evalBefore - evalAfter
    IN  IF cpLoss >= BLUNDER_THRESHOLD THEN "blunder"
        ELSE IF cpLoss >= MISTAKE_THRESHOLD THEN "mistake"
        ELSE IF cpLoss >= INACCURACY_THRESHOLD THEN "inaccuracy"
        ELSE IF improvement > 80 /\ Abs(evalBefore) < 200 THEN "brilliant"
        ELSE IF improvement > 40 THEN "great"
        ELSE IF isBestMove THEN "best"
        ELSE IF cpLoss < 15 THEN "excellent"
        ELSE "good"

ClassifyMove(cpLoss, isBestMove, evalBefore, evalAfter, isWhite) ==
    IF cpLoss >= BLUNDER_THRESHOLD THEN "blunder"
    ELSE IF cpLoss >= MISTAKE_THRESHOLD THEN "mistake"
    ELSE IF cpLoss >= INACCURACY_THRESHOLD THEN "inaccuracy"
    ELSE IF isBestMove
    THEN LET improvement == IF isWhite THEN evalAfter - evalBefore
                            ELSE evalBefore - evalAfter
         IN  IF improvement > 80 /\ Abs(evalBefore) < 200 THEN "brilliant"
             ELSE IF improvement > 40 THEN "great"
             ELSE "best"
    ELSE IF cpLoss < 15 THEN "excellent"
    ELSE "good"

\* The board field of a FEN, fen.split(' ')[0], one character per element.
Board12 ==
    <<"4", "k", "3", "/", "p", "p", "p", "p", "4", "/", "8", "/", "8", "/", "8", "/",
      "8", "/", "P", "P", "P", "P", "P", "P", "2", "/", "4", "K", "3">>
Board13 ==
    <<"4", "k", "3", "/", "p", "p", "p", "p", "p", "3", "/", "8", "/", "8", "/", "8", "/",
      "8", "/", "P", "P", "P", "P", "P", "P", "2", "/", "4", "K", "3">>
Boards == {Board12, Board13}

\* replace(/[0-9/]/g, '').length
PieceCount(board) ==
    Len(SelectSeq(board, LAMBDA ch :
            ch \notin {"0", "1", "2", "3", "4", "5", "6", "7", "8", "9", "/"}))

\* A getGamePhase whose endgame starts below twelve pieces.
GetGamePhaseBelow(board, moveNumber) ==
    IF moveNumber <= 10 THEN "opening"
    ELSE IF PieceCount(board) < 12 THEN "endgame"
    ELSE "middlegame"

GetGamePhase(board, moveNumber) ==
    IF moveNumber <= 10 THEN "opening"
    ELSE IF PieceCount(board) <= 12 THEN "endgame"
    ELSE "middlegame"

\* MoveAnalysis['classification']
Labels == {"blunder", "mistake", "inaccuracy", "good", "excellent", "great", "best",
           "brilliant"}
\* The counters of PlayerStats beside totalMoves. The accuracy, an average
\* of floating-point numbers, is left out.
Counters == {"blunders", "mistakes", "inaccuracies", "excellent", "great", "best",
             "brilliant"}
Phases == {"opening", "middlegame", "endgame"}

RECURSIVE CountStats(_, _)
\* for (const m of playerMoves): stats[cat]++ when stats[cat] is defined
CountStats(stats, playerMoves) ==
    IF playerMoves = <<>> THEN stats
    ELSE LET cat == Head(playerMoves).classification
             next == IF cat \in DOMAIN stats THEN [stats EXCEPT ![cat] = @ + 1]
                     ELSE stats
         IN  CountStats(next, Tail(playerMoves))

AnalyzePlayer(moves, isUser) ==
    LET playerMoves == SelectSeq(moves, LAMBDA m : m.is_user_move = isUser)
        stats == [k \in Counters \cup {"totalMoves"} |->
                     IF k = "totalMoves" THEN Len(playerMoves) ELSE 0]
    IN  CountStats(stats, playerMoves)

RECURSIVE CountPhases(_, _)
\* for (const move of moves.filter(m => m.is_user_move))
CountPhases(breakdown, userMoves) ==
    IF userMoves = <<>> THEN breakdown
    ELSE LET move == Head(userMoves)
             phase == GetGamePhase(move.fen, move.move_number)
             next == IF move.classification = "blunder"
                     THEN [breakdown EXCEPT ![phase].blunders = @ + 1]
                     ELSE IF move.classification = "mistake"
                     THEN [breakdown EXCEPT ![phase].mistakes = @ + 1]
                     ELSE breakdown
         IN  CountPhases(next, Tail(userMoves))

GenerateSummary(moves) ==
    [totalMoves |-> Len(moves),
     user |-> AnalyzePlayer(moves, TRUE),
     opponent |-> AnalyzePlayer(moves, FALSE),
     gamePhaseBreakdown |->
         CountPhases([ph \in Phases |-> [blunders |-> 0, mistakes |-> 0]],
                     SelectSeq(moves, LAMBDA m : m.is_user_move))]

\* Inputs of classifyMove.
CpLosses == {0, 10, 14, 15, 49, 50, 99, 100, 120, 199, 200, 250}
EvalsBefore == {-200, -199, 50, 199, 200}
EvalsAfter == {-31, -30, 9, 10, 90, 91, 130, 131, 140, 290}

\* Inputs of generateSummary: records of every label, and records of the
\* labels the phase breakdown counts in every phase.
LabelMoves ==
    [is_user_move : BOOLEAN, classification : Labels, move_number : {11},
     fen : {Board13}]
PhaseMoves ==
    [is_user_move : BOOLEAN, classification : {"blunder", "mistake", "good"},
     move_number : {10, 11}, fen : Boards]
SummaryInputs == SeqsUpTo(LabelMoves, MaxMoves) \cup SeqsUpTo(PhaseMoves, MaxMoves)

ClassifyCall(cpLoss, isBestMove, evalBefore, evalAfter, isWhite) ==
    /\ fn.op = "none"
    /\ fn' = [op |-> "classifyMove",
              arg |-> [cpLoss |-> cpLoss, isBestMove |-> isBestMove,
                       evalBefore |-> evalBefore, evalAfter |-> evalAfter,
                       isWhite |-> isWhite],
              out |-> ClassifyMove(cpLoss, isBestMove, evalBefore, evalAfter, isWhite)]
    /\ UNCHANGED <<poolVars, ag, loc, procError, ta, hs, eng>>

SummaryCall(moves) ==
    /\ fn.op = "none"
    /\ fn' = [op |-> "generateSummary", arg |-> moves, out |-> GenerateSummary(moves)]
    /\ UNCHANGED <<poolVars, ag, loc, procError, ta, hs, eng>>

----------------------------------------------------------------------------
\* ipcHandlers.ts triggerAnalysis and routes/analysis.ts POST /game/:id: the
\* loop that turns the records of analyzeGame into rows of the analysis table.

\* A conversion that leaves the mate count as it is.
ToCentipawnsUnscaled(e) == e.value

\* evaluation.type === 'mate' ? evaluation.value * 10000 : evaluation.value
ToCentipawns(e) == IF e.type = "mate" THEN e.value * 10000 ELSE e.value

Max(a, b) == IF a >= b THEN a ELSE b

\* The loss of a move counted as if White had made it.
CpLossAsWhite(evalBefore, evalAfter, isWhiteMove) ==
    Max(0, evalBefore - evalAfter)

\* cpLoss = isWhiteMove ? evalBefore - evalAfter : evalAfter - evalBefore;
\* cpLoss = Math.max(0, cpLoss)
CpLoss(evalBefore, evalAfter, isWhiteMove) ==
    Max(0, IF isWhiteMove THEN evalBefore - evalAfter ELSE evalAfter - evalBefore)

\* s.toLowerCase().trim() on the move tokens below.
LowerTrim(s) ==
    CASE s = "E7E8Q" -> "e7e8q"
      [] s = "e2e4 " -> "e2e4"
      [] OTHER -> s

\* A loop body that takes 0 as the evaluation after the last record.
ScoreMoveLastZero(analysisResults, i) ==
    LET current == analysisResults[i]
        evalBefore == ToCentipawns(current.evaluation)
        evalAfter == IF i + 1 <= Len(analysisResults)
                     THEN ToCentipawns(analysisResults[i + 1].evaluation)
                     ELSE 0
        isWhiteMove == current.ply % 2 = 1
        cpLoss == CpLoss(evalBefore, evalAfter, isWhiteMove)
        isBestMove == LowerTrim(current.movePlayedUci)
                          = LowerTrim(current.evaluation.bestMove)
    IN  [move_number |-> current.moveNumber, ply |-> current.ply,
         fen |-> current.fen, move_played |-> current.movePlayed,
         best_move |-> current.evaluation.bestMove,
         eval_before |-> evalBefore, eval_after |-> evalAfter,
         cp_loss |-> cpLoss,
         classification |->
             ClassifyMove(cpLoss, isBestMove, evalBefore, evalAfter, isWhiteMove),
         is_user_move |-> current.isUserMove]

\* One pass of the loop body, for the record at index i of analysisResults.
ScoreMove(analysisResults, i) ==
    LET current == analysisResults[i]
        evalBefore == ToCentipawns(current.evaluation)
        evalAfter == IF i + 1 <= Len(analysisResults)
                     THEN ToCentipawns(analysisResults[i + 1].evaluation)
                     ELSE evalBefore
        isWhiteMove == current.ply % 2 = 1
        cpLoss == CpLoss(evalBefore, evalAfter, isWhiteMove)
        isBestMove == LowerTrim(current.movePlayedUci)
                          = LowerTrim(current.evaluation.bestMove)
    IN  [move_number |-> current.moveNumber, ply |-> current.ply,
         fen |-> current.fen, move_played |-> current.movePlayed,
         best_move |-> current.evaluation.bestMove,
         eval_before |-> evalBefore, eval_after |-> evalAfter,
         cp_loss |-> cpLoss,
         classification |->
             ClassifyMove(cpLoss, isBestMove, evalBefore, evalAfter, isWhiteMove),
         is_user_move |-> current.isUserMove]

\* The rows pushed and inserted by the whole loop.
ScoreMoves(analysisResults) ==
    [i \in 1..Len(analysisResults) |-> ScoreMove(analysisResults, i)]

\* What the engine answered for a position, and the move played from it.
ScoreEvals ==
    [type : {"cp"}, value : {-120, 0, 30, 250}, bestMove : {"e2e4", "e2e4 ", "d2d4"}]
        \cup [type : {"mate"}, value : {-2, 2, 3}, bestMove : {"e2e4", "E7E8Q"}]
PlayedUci(e) == IF e.type = "mate" THEN "e7e8q" ELSE "e2e4"

\* The records analyzeGame returns for a game whose plies were answered with
\* evs, the user playing White.
ResultsOf(evs) ==
    [i \in 1..Len(evs) |->
        [ply |-> i, moveNumber |-> ((i - 1) \div 2) + 1, fen |-> i - 1,
         movePlayed |-> i, movePlayedUci |-> PlayedUci(evs[i]),
         evaluation |-> evs[i], isUserMove |-> (i % 2 = 1)]]

ScoreCall(evs) ==
    /\ fn.op = "none"
    /\ fn' = [op |-> "scoreMoves", arg |-> ResultsOf(evs),
              out |-> ScoreMoves(ResultsOf(evs))]
    /\ UNCHANGED <<poolVars, ag, loc, procError, ta, hs, eng>>

----------------------------------------------------------------------------
\* analyzeGame(pgn, userColor, depth).

\* The position a game starts from: the standard one, or the one a FEN header
\* of the text sets up.
Starts == {"standard", "setup"}

\* A game text: ok says whether chess.js parses it, n is the number of plies
\* it holds (for a text that does not parse, the legal plies before the
\* first token that is no move), start is the position the game starts from
\* and replay the number of its leading moves that are legal when they are
\* played from the standard position (all of them when the game starts there).
Pgns ==
    {p \in [ok : BOOLEAN, n : 0..MaxPly, start : Starts, replay : 0..MaxPly] :
        /\ p.replay <= p.n
        /\ p.start = "standard" => p.replay = p.n}
Colors == {"white", "black"}
\* What an evaluatePosition() call resolves with.
Evals == {[type |-> "cp", value |-> 30, bestMove |-> "e2e4"],
          [type |-> "mate", value |-> -2, bestMove |-> "g1f3"]}

\* chess.history({ verbose: true })[k - 1]: the move of ply k of a game.
HistoryMove(k) ==
    CASE k % 3 = 1 -> [san |-> "e4", from |-> "e2", to |-> "e4", promotion |-> "undefined"]
      [] k % 3 = 2 -> [san |-> "Kd7", from |-> "e8", to |-> "d7", promotion |-> "undefined"]
      [] k % 3 = 0 -> [san |-> "b8=Q", from |-> "b7", to |-> "b8", promotion |-> "q"]

\* (move.promotion || '')
OrEmpty(promotion) == IF promotion = "undefined" THEN "" ELSE promotion

\* chess.fen() of a position: where the replay started, and the moves made.
StandardStart == [start |-> "standard", played |-> 0]

\* pc: idle, await (in "await evaluatePosition"), returned, rejected.
NoAnalysis == [pc |-> "idle",
               pgn |-> [ok |-> TRUE, n |-> 0, start |-> "standard", replay |-> 0],
               color |-> "white", moves |-> 0, i |-> 0, pos |-> StandardStart,
               asked |-> <<>>, results |-> <<>>, issued |-> 0,
               returned |-> FALSE]

\* A parser that stops at the first token that is no move.
LoadPgnLenient(pgn) == pgn.n

\* chess.loadPgn(pgn); chess.history(): the number of moves, or -1 when
\* loadPgn throws on a text that is no game.
LoadPgn(pgn) == IF pgn.ok THEN pgn.n ELSE -1

\* chess.reset(): the standard starting position, whatever the text set up.
Reset(pgn) == StandardStart

\* A loop that asks for the evaluation of two plies at a time.
LoopStepAhead(a) ==
    IF a.i < a.moves
    THEN [a EXCEPT !.pc = "await", !.issued = @ + 2, !.asked = Append(@, a.pos)]
    ELSE [a EXCEPT !.pc = "returned", !.returned = TRUE]

\* The top of the loop body: evaluatePosition(fen, depth) for ply i + 1, or
\* the return of the results after the last ply.
LoopStep(a) ==
    IF a.i < a.moves
    THEN [a EXCEPT !.pc = "await", !.issued = @ + 1, !.asked = Append(@, a.pos)]
    ELSE [a EXCEPT !.pc = "returned", !.returned = TRUE]

\* analyzeGame up to its first await.
AnalyzeStart(pgn, color) ==
    LET m == LoadPgn(pgn)
        a == [NoAnalysis EXCEPT !.pgn = pgn, !.color = color]
    IN  IF m < 0 THEN [a EXCEPT !.pc = "rejected"]
        ELSE LoopStep([a EXCEPT !.moves = m, !.pos = Reset(pgn)])

\* chess.move(move) for ply i + 1: throws when the move is not legal in the
\* position the replay has reached.
MoveThrows(a) == a.pos.start # a.pgn.start /\ a.i + 1 > a.pgn.replay

\* The loop body after the await: push the record, make the move, go on.
AnalyzePush(a, e) ==
    LET isWhiteMove == a.i % 2 = 0
        isUserMove == (a.color = "white" /\ isWhiteMove)
                      \/ (a.color = "black" /\ ~isWhiteMove)
        move == HistoryMove(a.i + 1)
        rec == [ply |-> a.i + 1, moveNumber |-> (a.i \div 2) + 1,
                fen |-> a.pos, movePlayed |-> move.san,
                movePlayedUci |-> move.from \o move.to \o OrEmpty(move.promotion),
                evaluation |-> e, isUserMove |-> isUserMove]
        pushed == [a EXCEPT !.results = Append(@, rec)]
    IN  IF MoveThrows(a) THEN [pushed EXCEPT !.pc = "rejected"]
        ELSE LoopStep([pushed EXCEPT !.pos.played = @ + 1, !.i = @ + 1])

AnalyzeGame(pgn, color) ==
    /\ ag.pc = "idle"
    /\ ag' = AnalyzeStart(pgn, color)
    /\ UNCHANGED <<poolVars, fn, loc, procError, ta, hs, eng>>

\* The awaited evaluatePosition() resolves with e.
EvalResolved(e) ==
    /\ ag.pc = "await"
    /\ ag' = AnalyzePush(ag, e)
    /\ UNCHANGED <<poolVars, fn, loc, procError, ta, hs, eng>>

\* The awaited evaluatePosition() rejects: analyzeGame rejects.
EvalRejected ==
    /\ ag.pc = "await"
    /\ ag' = [ag EXCEPT !.pc = "rejected"]
    /\ UNCHANGED <<poolVars, fn, loc, procError, ta, hs, eng>>

----------------------------------------------------------------------------
\* ipcHandlers.ts triggerAnalysis(id, depth), routes/analysis.ts
\* POST /game/:id and POST /batch, for one game of the games table.

\* The invocations of the handlers.
Trigs == 1..MaxTrig

\* One invocation. kind: trigger (triggerAnalysis or POST /game/:id) or
\* batch (the background loop of POST /batch); pc: idle, await (in "await
\* analyzeGame"), done (ran the UPDATE), already (returned alreadyAnalyzed),
\* skipped (batch: the SELECT ... AND analyzed = 0 found no row), failed
\* (threw) or logged (batch: the catch logged the error); a: its analyzeGame
\* call; inserted: the rows it has inserted; marked: it ran the UPDATE.
NoInvocation ==
    [kind |-> "trigger", pc |-> "idle", a |-> NoAnalysis, inserted |-> 0,
     marked |-> FALSE]

\* pgn, color: the game's row of the games table; rows: the rows of the
\* analysis table for the game; analyzed: the game's analyzed column; call:
\* the invocations.
NoTrigger ==
    [pgn |-> [ok |-> TRUE, n |-> 0, start |-> "standard", replay |-> 0],
     color |-> "white", rows |-> <<>>, analyzed |-> FALSE,
     call |-> [c \in Trigs |-> NoInvocation]]

\* insertStmt.run(...) of a row whose (game_id, ply) is in the table already:
\* UNIQUE constraint failed. The plies of a game are 1, 2, ...: the first
\* insert of a game with moves fails when the table has a row of the game.
UniqueFails(t, c) == Len(t.call[c].a.results) > 0 /\ Len(t.rows) > 0

\* A handler that inserts the row of every record it has so far.
AfterAnalyzeEager(t, c) ==
    LET a == t.call[c].a
        r == IF Len(t.rows) > 0 THEN t.rows ELSE ScoreMoves(a.results)
        k == IF Len(t.rows) > 0 THEN 0 ELSE Len(a.results)
    IN  IF a.pc = "returned"
        THEN [t EXCEPT !.rows = r, !.analyzed = TRUE, !.call[c].inserted = k,
                       !.call[c].marked = TRUE, !.call[c].pc = "done"]
        ELSE IF a.pc = "rejected"
        THEN [t EXCEPT !.rows = r, !.call[c].inserted = k, !.call[c].pc = "failed"]
        ELSE [t EXCEPT !.call[c].pc = "await"]

\* The handler around "await analyzeGame(...)": when analyzeGame returns, the
\* loop inserts one row per record and the game is marked analyzed, unless
\* the first insert throws; when analyzeGame rejects, the handler throws;
\* otherwise it keeps waiting.
AfterAnalyze(t, c) ==
    LET a == t.call[c].a
    IN  IF a.pc = "returned"
        THEN IF UniqueFails(t, c)
             THEN [t EXCEPT !.call[c].pc = "failed"]
             ELSE [t EXCEPT !.rows = ScoreMoves(a.results), !.analyzed = TRUE,
                            !.call[c].inserted = Len(a.results),
                            !.call[c].marked = TRUE, !.call[c].pc = "done"]
        ELSE IF a.pc = "rejected" THEN [t EXCEPT !.call[c].pc = "failed"]
        ELSE [t EXCEPT !.call[c].pc = "await"]

\* The body of the batch loop around "await analyzeGame(...)": when
\* analyzeGame returns, the game is marked analyzed and no row is stored;
\* when it rejects, the catch logs the error.
AfterBatch(t, c) ==
    LET a == t.call[c].a
    IN  IF a.pc = "returned"
        THEN [t EXCEPT !.analyzed = TRUE, !.call[c].marked = TRUE,
                       !.call[c].pc = "done"]
        ELSE IF a.pc = "rejected" THEN [t EXCEPT !.call[c].pc = "logged"]
        ELSE [t EXCEPT !.call[c].pc = "await"]

\* What follows a step of the analyzeGame call of invocation c.
AfterStep(t, c) ==
    IF t.call[c].kind = "batch" THEN AfterBatch(t, c) ELSE AfterAnalyze(t, c)

\* What the evaluations of the game's positions resolve with: the centipawn
\* score of Evals, the same whichever invocation asked.
TriggerEvals == {e \in Evals : e.type = "cp"}

\* The invocations are numbered in the order of their calls.
NextInvocation(c) ==
    /\ ta.call[c].pc = "idle"
    /\ c > 1 => ta.call[c - 1].pc # "idle"

\* triggerAnalysis is called for the game: a game with analysis rows is
\* reported as analyzed already, any other is handed to analyzeGame,
\* whatever other invocations are under way.
TriggerAnalysis(c) ==
    /\ NextInvocation(c)
    /\ ta' = IF Len(ta.rows) > 0
             THEN [ta EXCEPT !.call[c].pc = "already"]
             ELSE AfterAnalyze([ta EXCEPT !.call[c].a =
                                    AnalyzeStart(ta.pgn, ta.color)], c)
    /\ UNCHANGED <<poolVars, ag, fn, loc, procError, hs, eng>>

\* The batch loop reaches the game: a game whose analyzed column is set is
\* passed over, any other is handed to analyzeGame.
BatchAnalyze(c) ==
    /\ NextInvocation(c)
    /\ ta' = IF ta.analyzed
             THEN [ta EXCEPT !.call[c].kind = "batch", !.call[c].pc = "skipped"]
             ELSE AfterBatch([ta EXCEPT !.call[c].kind = "batch",
                                        !.call[c].a =
                                            AnalyzeStart(ta.pgn, ta.color)], c)
    /\ UNCHANGED <<poolVars, ag, fn, loc, procError, hs, eng>>

\* The evaluatePosition() awaited by the analyzeGame of invocation c resolves.
TriggerEvalResolved(c, e) ==
    /\ ta.call[c].pc = "await"
    /\ ta' = AfterStep([ta EXCEPT !.call[c].a = AnalyzePush(@, e)], c)
    /\ UNCHANGED <<poolVars, ag, fn, loc, procError, hs, eng>>

\* The evaluatePosition() awaited by the analyzeGame of invocation c rejects.
TriggerEvalRejected(c) ==
    /\ ta.call[c].pc = "await"
    /\ ta' = AfterStep([ta EXCEPT !.call[c].a.pc = "rejected"], c)
    /\ UNCHANGED <<poolVars, ag, fn, loc, procError, hs, eng>>

----------------------------------------------------------------------------

Init ==
    /\ initialized = FALSE
    /\ instances = <<>>
    /\ created = 0
    /\ busy = [i \in Insts |-> FALSE]
    /\ queue = [i \in Insts |-> <<>>]
    /\ killed = [i \in Insts |-> FALSE]
    /\ quitSent = [i \in Insts |-> FALSE]
    /\ listeners = [i \in Insts |-> <<>>]
    /\ goPending = [i \in Insts |-> <<>>]
    /\ icall = [c \in Calls |-> NoCall]
    /\ lastInit = NoResult
    /\ req = [r \in Reqs |-> NoReq]
    /\ shut = FALSE
    /\ stdinErr = "none"
    /\ ag = NoAnalysis
    /\ fn = NoFn
    /\ loc = NoLocator
    /\ procError = [i \in Insts |-> FALSE]
    /\ ta = NoTrigger
    /\ hs = NoHandshake
    /\ eng = NoEngine

Next ==
    \/ Initialize
    \/ \E c \in Calls : ProbeStdout(c)
    \/ \E c \in Calls, kind \in {"error", "timeout"} : ProbeFail(c, kind)
    \/ \E c \in Calls, toks \in (SUBSET {"uciok", "readyok"}) \ {{}} : HandshakeData(c, toks)
    \/ \E c \in Calls : HandshakeTimeout(c)
    \/ \E c \in Calls : HandshakeError(c)
    \/ Evaluate(MaxLifeReq)
    \/ \E i \in Insts, nb \in 1..MaxBest : EngineData(i, nb)
    \/ \E r \in Reqs : EvalTimeout(r)
    \/ Shutdown

Spec == Init /\ [][Next]_vars

\* The pool once a first initialize() has completed: PoolSize ready
\* instances, nothing dispatched yet.
PoolInit ==
    /\ initialized = TRUE
    /\ instances = [k \in 1..PoolSize |-> k]
    /\ created = PoolSize
    /\ busy = [i \in Insts |-> FALSE]
    /\ queue = [i \in Insts |-> <<>>]
    /\ killed = [i \in Insts |-> FALSE]
    /\ quitSent = [i \in Insts |-> FALSE]
    /\ listeners = [i \in Insts |-> <<>>]
    /\ goPending = [i \in Insts |-> <<>>]
    /\ icall = [c \in Calls |-> NoCall]
    /\ lastInit = [res |-> "done", err |-> NoErr]
    /\ req = [r \in Reqs |-> NoReq]
    /\ shut = FALSE
    /\ stdinErr = "none"
    /\ ag = NoAnalysis
    /\ fn = NoFn
    /\ loc = NoLocator
    /\ procError = [i \in Insts |-> FALSE]
    /\ ta = NoTrigger
    /\ hs = NoHandshake
    /\ eng = NoEngine

\* The steps of an initialized pool with at most limit evaluate() calls.
PoolStep(limit) ==
    \/ initialized /\ Evaluate(limit)
    \/ \E i \in Insts, nb \in 1..MaxBest : EngineData(i, nb)
    \/ \E r \in Reqs : EvalTimeout(r)
    \/ Shutdown
    \/ StdinError

PoolNext ==
    \/ PoolStep(MaxReq)
    \/ initialized /\ Initialize

PoolSpec == PoolInit /\ [][PoolNext]_vars

FairPoolNext == PoolStep(MaxFairReq)

\* Timers fire: the event loop runs every armed timer that is not cleared.
FairPoolSpec ==
    PoolInit /\ [][FairPoolNext]_vars /\ \A r \in Reqs : WF_vars(EvalTimeout(r))

\* The construction of the pool by overlapping initialize() and evaluate()
\* calls, and what the engines answer.
InitNext ==
    \/ InitializeOn(MaxOverlap)
    \/ EvaluateOn(MaxLifeReq, MaxOverlap)
    \/ \E c \in Calls : ProbeStdout(c)
    \/ \E c \in Calls, kind \in {"error", "timeout"} : ProbeFail(c, kind)
    \/ \E c \in Calls, toks \in (SUBSET {"uciok", "readyok"}) \ {{}} : HandshakeData(c, toks)
    \/ \E c \in Calls : HandshakeTimeout(c)
    \/ \E c \in Calls : HandshakeError(c)
    \/ \E i \in Insts, nb \in 1..MaxBest : EngineData(i, nb)
    \/ \E r \in Reqs : EvalTimeout(r)

InitSpec == Init /\ [][InitNext]_vars

\* A pool that is shut down and built again by the next evaluate() while
\* requests of the pool before are still waiting.
RestartNext ==
    \/ EvaluateOn(MaxFairReq, MaxCall)
    \/ \E c \in Calls : ProbeStdout(c)
    \/ \E c \in Calls, toks \in (SUBSET {"uciok", "readyok"}) \ {{}} : HandshakeData(c, toks)
    \/ \E i \in Insts, nb \in 1..MaxBest : EngineData(i, nb)
    \/ \E r \in Reqs : EvalTimeout(r)
    \/ Shutdown
    \/ StdinError

RestartSpec == PoolInit /\ [][RestartNext]_vars

\* An initialized pool whose processes may report errors.
ErrorNext ==
    \/ initialized /\ Evaluate(MaxFairReq)
    \/ \E i \in Insts, nb \in 1..MaxBest : EngineData(i, nb)
    \/ \E r \in Reqs : EvalTimeout(r)
    \/ \E i \in Insts : ProcessError(i)

ErrorSpec == PoolInit /\ [][ErrorNext]_vars

LocateNext ==
    \/ \E w \in [1..NumPaths -> WriteOutcomes] : Locate(w)
    \/ \E k \in 1..NumPaths : LocStdout(k)
    \/ \E k \in 1..NumPaths, kind \in {"stderr", "error"} : LocError(k, kind)
    \/ \E k \in 1..NumPaths : LocTimer(k)
    \/ \E k \in 1..NumPaths : LocStdinError(k)

LocateSpec == Init /\ [][LocateNext]_vars

ChunkNext ==
    \/ \E side \in Sides : EvaluateText(side)
    \/ \E stream \in Streams : EngineWrites(stream)
    \/ \E n \in ChunkSizes \cup {Len(eng.pipe)}, survives \in BOOLEAN :
           StdoutData(n, survives)
    \/ \E r \in Runs : TimeoutText(r)
    \/ ShutdownText
    \/ StdinErrorText

ChunkSpec == Init /\ [][ChunkNext]_vars

HandshakeNext ==
    \/ HandshakeStart
    \/ \E data \in Fragments : HandshakeStdout(data)
    \/ HandshakeDeadline
    \/ HandshakeProcessError

HandshakeSpec == Init /\ [][HandshakeNext]_vars

ParseNext ==
    \/ /\ fn.op = "none"
       /\ \E info \in SeqsUpTo(InfoLines, MaxInfo), best \in BestLines,
             depth \in Depths, side \in Sides :
              \E piece \in FirstPieces(best) :
                  ParseRunEvaluation(info, best, piece, depth, side)
    \/ \E survives \in BOOLEAN : ParseEngineOutput(survives)
    \/ ParseTimeout
    \/ ParseShutdown

ParseSpec == Init /\ [][ParseNext]_vars

AnalyzerNext ==
    \/ \E cpLoss \in CpLosses, isBestMove \in BOOLEAN, evalBefore \in EvalsBefore,
          evalAfter \in EvalsAfter, isWhite \in BOOLEAN :
            ClassifyCall(cpLoss, isBestMove, evalBefore, evalAfter, isWhite)
    \/ \E moves \in SummaryInputs : SummaryCall(moves)

AnalyzerSpec == Init /\ [][AnalyzerNext]_vars

ScoreNext ==
    /\ fn.op = "none"
    /\ \E evs \in SeqsUpTo(ScoreEvals, MaxScored) : ScoreCall(evs)

ScoreSpec == Init /\ [][ScoreNext]_vars

AnalyzeNext ==
    \/ \E pgn \in Pgns, color \in Colors : AnalyzeGame(pgn, color)
    \/ \E e \in Evals : EvalResolved(e)
    \/ EvalRejected

AnalyzeSpec == Init /\ [][AnalyzeNext]_vars

\* The games table holds one game.
TriggerInit ==
    /\ initialized = FALSE
    /\ instances = <<>>
    /\ created = 0
    /\ busy = [i \in Insts |-> FALSE]
    /\ queue = [i \in Insts |-> <<>>]
    /\ killed = [i \in Insts |-> FALSE]
    /\ quitSent = [i \in Insts |-> FALSE]
    /\ listeners = [i \in Insts |-> <<>>]
    /\ goPending = [i \in Insts |-> <<>>]
    /\ icall = [c \in Calls |-> NoCall]
    /\ lastInit = NoResult
    /\ req = [r \in Reqs |-> NoReq]
    /\ shut = FALSE
    /\ stdinErr = "none"
    /\ ag = NoAnalysis
    /\ fn = NoFn
    /\ loc = NoLocator
    /\ procError = [i \in Insts |-> FALSE]
    /\ \E pgn \in Pgns, color \in Colors :
          ta = [NoTrigger EXCEPT !.pgn = pgn, !.color = color]
    /\ hs = NoHandshake
    /\ eng = NoEngine

TriggerNext ==
    \/ \E c \in Trigs : TriggerAnalysis(c)
    \/ \E c \in Trigs : BatchAnalyze(c)
    \/ \E c \in Trigs, e \in TriggerEvals : TriggerEvalResolved(c, e)
    \/ \E c \in Trigs : TriggerEvalRejected(c)

TriggerSpec == TriggerInit /\ [][TriggerNext]_vars

----------------------------------------------------------------------------
\* Properties of the evaluation pool.

\* The requests in flight on instance i: started and not cleaned up.
Running(i) == {r \in Reqs : req[r].st = "running" /\ req[r].inst = i}
\* The armed 30 s evaluation timers of instance i.
Timers(i) == {r \in Reqs : req[r].timer /\ req[r].inst = i}
Settled(r) == req[r].outcome # "pending"

\* C1: on an initialized pool every evaluate() request, dispatched at once or
\* queued behind a busy instance, is eventually resolved or rejected, as long
\* as shutdown() is not called.
C1_EveryRequestSettles ==
    \A r \in Reqs : (req[r].st \in {"queued", "running"}) ~> (Settled(r) \/ shut)

\* More requests than instances were issued, one of them waited in a queue,
\* and all are settled without a shutdown.
C1_AllSettled ==
    /\ ~shut
    /\ MaxFairReq > PoolSize
    /\ \A r \in 1..MaxFairReq : Settled(r)
    /\ \E r \in Reqs : req[r].viaQueue
    /\ \E r \in Reqs : req[r].outcome = "rejected"

\* C2: an instance runs at most one evaluation at a time: at most one
\* request in flight, one stdout listener and one armed timer per instance.
C2_OneInFlight ==
    \A i \in Insts :
        /\ Cardinality(Running(i)) <= 1
        /\ Len(listeners[i]) <= 1
        /\ Cardinality(Timers(i)) <= 1

\* C3: the completion handle of a request is invoked at most once, resolve
\* and reject together, and a request that is done was settled exactly once.
C3_SettledOnce ==
    \A r \in Reqs :
        /\ req[r].resolves + req[r].rejects <= 1
        /\ (req[r].st = "done") => (req[r].resolves + req[r].rejects = 1)

\* C4: requests queued on one instance leave the queue in the order of their
\* submission, and the earlier one is settled before the later one starts.
C4_QueueFifo ==
    /\ \A i \in Insts : \A k \in 1..(Len(queue[i]) - 1) : queue[i][k] < queue[i][k + 1]
    /\ \A q1, q2 \in Reqs :
          (/\ q1 < q2
           /\ req[q1].viaQueue /\ req[q2].viaQueue
           /\ req[q1].inst = req[q2].inst
           /\ req[q2].st \in {"running", "done"}) => Settled(q1)

\* The step in which the 30 s timer of the running request r fires.
TimeoutStep(r) ==
    req[r].timer /\ ~req'[r].timer /\ req'[r].rejects = req[r].rejects + 1

\* C5: when the timer of a running evaluation fires, only that request is
\* rejected, its instance loses the request's listener and either starts the
\* head of its queue or becomes idle, and no other instance changes.
C5_TimeoutFreesInstance ==
    [][\A r \in Reqs : TimeoutStep(r) =>
          LET i == req[r].inst
          IN  /\ req'[r].st = "done"
              /\ \A q \in Reqs \ {r} :
                    /\ req'[q].rejects = req[q].rejects
                    /\ req'[q].resolves = req[q].resolves
                    /\ req'[q].outcome = req[q].outcome
              /\ ~InSeq(r, listeners'[i])
              /\ IF queue[i] = <<>>
                 THEN ~busy'[i] /\ queue'[i] = <<>>
                 ELSE LET h == Head(queue[i])
                      IN  /\ busy'[i]
                          /\ queue'[i] = Tail(queue[i])
                          /\ req'[h].st = "running" /\ req'[h].inst = i
                          /\ req'[h].timer
                          /\ listeners'[i] = Append(Without(listeners[i], r), h)
              /\ \A j \in Insts \ {i} :
                    /\ busy'[j] = busy[j]
                    /\ queue'[j] = queue[j]
                    /\ listeners'[j] = listeners[j]
                    /\ Running(j)' = Running(j)
      ]_vars

\* A timed-out request whose instance went on with the head of its queue
\* while the other instance is still running its own request.
C5_TimeoutThenNext ==
    \E r, h \in Reqs :
        /\ req[r].outcome = "rejected" /\ req[r].resolves = 0
        /\ req[h].viaQueue /\ req[h].st = "running" /\ req[h].inst = req[r].inst
        /\ \E j \in Insts \ {req[r].inst} : Running(j) # {}

\* C6: shutdown() writes quit to and kills every instance of the pool and
\* empties the pool, and a request waiting in the queue of an instance that
\* was shut down stays there: it is never started, resolved or rejected.
C6_QueuedAbandoned ==
    [][/\ (instances # <<>> /\ instances' = <<>>) =>
            \A k \in 1..Len(instances) :
                quitSent'[instances[k]] /\ killed'[instances[k]]
       /\ \A r \in Reqs :
            (req[r].st = "queued" /\ killed[req[r].inst]) =>
                (req'[r].st = "queued" /\ req'[r].outcome = "pending")
      ]_vars

----------------------------------------------------------------------------
\* Properties of initialize().

\* C7: initialize() on an initialized pool changes nothing of the pool: no
\* process is spawned, and the instance list, the busy flags, the queues and
\* the requests stay as they are.
C7_InitializeNoop ==
    [][(initialized /\ Initialize) =>
          /\ lastInit'.res = "noop"
          /\ UNCHANGED <<initialized, instances, created, busy, queue, killed,
                         quitSent, listeners, goPending, icall, req, shut>>
      ]_vars

\* initialize() returned at its guard on a pool with work under way.
C7_NoopOnBusyPool ==
    /\ initialized /\ lastInit.res = "noop"
    /\ \E i \in Insts : busy[i] /\ queue[i] # <<>>

\* The step in which evaluate() hands request r to an instance.
DispatchStep(r) ==
    req[r].st \in {"new", "await"} /\ req'[r].st \in {"queued", "running"}

\* C8: a handshake that does not reach readyok in 30 s fails the
\* initialize() call: the pool is not marked initialized and a waiting
\* evaluate() is rejected without being dispatched. A request is dispatched
\* only on a pool marked initialized by a completed initialize(), to an
\* instance of the pool whose handshake is over, and never on a pool that
\* holds fewer than PoolSize instances.
C8_NoPartialPoolServes ==
    [][/\ \A c \in Calls : HandshakeTimeout(c) =>
            LET w == icall[c].waiter
            IN  /\ icall'[c].pc = "over"
                /\ lastInit'.res = "failed" /\ lastInit'.err.why = "timeout"
                /\ initialized' = initialized
                /\ instances' = instances
                /\ w # 0 => /\ req'[w].rejects = req[w].rejects + 1
                            /\ req'[w].st = "done" /\ req'[w].inst = 0
       /\ \A r \in Reqs : DispatchStep(r) =>
            /\ initialized'
            /\ InSeq(req'[r].inst, instances')
            /\ \A c \in Calls : icall'[c].pc \in {"probe", "handshake"}
                                   => icall'[c].inst # req'[r].inst
            /\ Len(instances') >= PoolSize
      ]_vars

\* C9: when the last candidate path fails too, the initialize() call fails
\* with an error that lists every path attempted and carries the error of
\* the last attempt; the pool is not marked initialized and the call is over.
C9_NotFoundError ==
    [][\A c \in Calls :
          (icall[c].cand = NumPaths /\ \E kind \in {"error", "timeout"} : ProbeFail(c, kind)) =>
              /\ icall'[c].pc = "over"
              /\ lastInit'.res = "failed" /\ lastInit'.err.why = "notfound"
              /\ lastInit'.err.paths = [k \in 1..icall[c].cand |-> StockfishPaths[k]]
              /\ lastInit'.err.last.cand = icall[c].cand
              /\ lastInit'.err.last.kind \in {"error", "timeout"}
              /\ initialized' = initialized
              /\ instances' = instances
              /\ icall[c].waiter # 0 => req'[icall[c].waiter].rejects = 1
      ]_vars

\* Every candidate failed: the call is over with the not-found error.
C9_AllCandidatesFailed ==
    /\ ~initialized
    /\ lastInit.res = "failed" /\ lastInit.err.why = "notfound"
    /\ Len(lastInit.err.paths) = NumPaths
    /\ \E c \in Calls : icall[c].pc = "over"

----------------------------------------------------------------------------
\* C19: a request is resolved only by the engine's answer to its own go
\* command: when a bestmove line resolves a request, the oldest go command
\* its instance has not answered yet is that request's.
C19_OwnAnswerOnly ==
    [][\A r \in Reqs :
          req'[r].resolves > req[r].resolves =>
              /\ goPending[req[r].inst] # <<>>
              /\ Head(goPending[req[r].inst]) = r
      ]_vars

\* C20: the pool never holds more than PoolSize instances.
C20_AtMostPoolSize == Len(instances) <= PoolSize

----------------------------------------------------------------------------
\* Properties of the evaluation a request resolves with.

\* The engine's lines before the bestmove line, and the move it announces.
InfoOf(a) == SubSeq(a.lines, 1, Len(a.lines) - 1)
Announced(a) == a.lines[Len(a.lines)][2]
\* The position of the score token of a line, 0 when it has none.
ScoreAt(l) ==
    IF \E k \in 1..Len(l) : l[k] = "score"
    THEN CHOOSE k \in 1..Len(l) : l[k] = "score"
    ELSE 0
\* The lines whose score the evaluation records: info depth lines of the
\* last three depths of the search that carry a score.
Scored(a) ==
    {k \in 1..Len(InfoOf(a)) :
        LET l == a.lines[k]
        IN  /\ l[1] = "info" /\ l[2] = "depth"
            /\ ParseInt(l[3]) >= a.depth - 2
            /\ ScoreAt(l) # 0}
MaxOf(S) == CHOOSE x \in S : \A y \in S : y <= x

\* C15: a bestmove line with no scored info line recorded before it resolves
\* the request with centipawn value 0, the announced move as bestMove and the
\* one-element principal variation holding that move, however the line
\* reaches onData: a request of such a search that is resolved has that
\* value.
C15_ImmediateBestmove ==
    (fn.op = "onData" /\ Scored(fn.arg) = {} /\ fn.out.promise = "resolved") =>
        fn.out.result = [type |-> "cp", value |-> 0,
                         bestMove |-> Announced(fn.arg),
                         pv |-> <<Announced(fn.arg)>>]

\* C16: every evaluation resolved at a bestmove line has a principal
\* variation of at least one move.
C16_PvNotEmpty ==
    (fn.op = "onData" /\ fn.out.promise = "resolved") =>
        Len(fn.out.result.pv) >= 1

\* C17: the value of a resolved evaluation is the raw score of the last
\* recorded line when the side to move of the FEN is White and its negation
\* when it is Black, for centipawn and mate scores alike.
C17_WhitePerspective ==
    (fn.op = "onData" /\ Scored(fn.arg) # {} /\ fn.out.promise = "resolved") =>
        LET l == fn.arg.lines[MaxOf(Scored(fn.arg))]
            raw == ParseInt(l[ScoreAt(l) + 2])
        IN  /\ fn.out.result.type = l[ScoreAt(l) + 1]
            /\ fn.arg.side = "w" => fn.out.result.value = raw
            /\ fn.arg.side = "b" => fn.out.result.value = 0 - raw

\* A mate score read with Black to move, after a centipawn score, resolved
\* by the second data event, after the first one ended at 'bestmove' and
\* its onData threw.
C17_BlackMate ==
    /\ fn.op = "onData" /\ fn.arg.side = "b"
    /\ Cardinality(Scored(fn.arg)) = MaxInfo
    /\ fn.arg.piece = <<"bestmove">>
    /\ fn.out.seen = 2 /\ fn.out.threw
    /\ fn.out.promise = "resolved"
    /\ fn.out.result.type = "mate" /\ fn.out.result.value = 3

----------------------------------------------------------------------------
\* Properties of services/analyzer.ts.

\* The rows of the classification table, in order: condition and label.
LabelTable(a) ==
    LET improvement == IF a.isWhite THEN a.evalAfter - a.evalBefore
                       ELSE a.evalBefore - a.evalAfter
    IN  << <<a.cpLoss >= 200, "blunder">>,
           <<a.cpLoss >= 100 /\ a.cpLoss < 200, "mistake">>,
           <<a.cpLoss >= 50 /\ a.cpLoss < 100, "inaccuracy">>,
           <<a.isBestMove /\ improvement > 80 /\ Abs(a.evalBefore) < 200, "brilliant">>,
           <<a.isBestMove /\ improvement > 40, "great">>,
           <<a.isBestMove, "best">>,
           <<a.cpLoss < 15, "excellent">>,
           <<TRUE, "good">> >>
FirstRow(t) == MinOf({k \in 1..Len(t) : t[k][1]})

\* C13: classifyMove returns, for every input, the label of the first
\* matching row of the table; classify(250, false) is blunder,
\* classify(120, false) is mistake, classify(10, true, 50, 140, white) is
\* brilliant.
C13_ClassifyTable ==
    /\ fn.op = "classifyMove" =>
          /\ fn.out \in Labels
          /\ fn.out = LabelTable(fn.arg)[FirstRow(LabelTable(fn.arg))][2]
    /\ \A eb \in EvalsBefore, ea \in EvalsAfter, w \in BOOLEAN :
          /\ ClassifyMove(250, FALSE, eb, ea, w) = "blunder"
          /\ ClassifyMove(120, FALSE, eb, ea, w) = "mistake"
    /\ ClassifyMove(10, TRUE, 50, 140, TRUE) = "brilliant"

\* Black's best move that gains more than 80 from an even position.
C13_BlackBrilliant ==
    /\ fn.op = "classifyMove" /\ fn.out = "brilliant"
    /\ ~fn.arg.isWhite /\ fn.arg.evalBefore - fn.arg.evalAfter = 81

\* The counter of PlayerStats that belongs to a label.
CounterOf(label) ==
    CASE label = "blunder" -> "blunders" [] label = "mistake" -> "mistakes"
      [] label = "inaccuracy" -> "inaccuracies" [] OTHER -> label
\* The number of the player's moves in the list that carry the label.
Carrying(moves, isUser, label) ==
    Cardinality({k \in 1..Len(moves) : /\ moves[k].is_user_move = isUser
                                        /\ moves[k].classification = label})

\* C14: generateSummary reports for the user and for the opponent a count
\* for each label equal to the number of that player's moves carrying the
\* label, and totalMoves equal to the number of that player's moves.
C14_LabelCounts ==
    fn.op = "generateSummary" =>
        \A isUser \in BOOLEAN :
            LET stats == IF isUser THEN fn.out.user ELSE fn.out.opponent
            IN  /\ \A label \in Labels \ {"good"} :
                      stats[CounterOf(label)] = Carrying(fn.arg, isUser, label)
                /\ stats.totalMoves =
                      Cardinality({k \in 1..Len(fn.arg) : fn.arg[k].is_user_move = isUser})

\* The pieces a board field holds: its letters.
PiecesOn(board) ==
    Cardinality({k \in 1..Len(board) :
        board[k] \in {"k", "q", "r", "b", "n", "p", "K", "Q", "R", "B", "N", "P"}})
\* The phase of a move record as the summary is documented to see it.
PhaseOf(m) ==
    IF m.move_number <= 10 THEN "opening"
    ELSE IF PiecesOn(m.fen) <= 12 THEN "endgame"
    ELSE "middlegame"
UserMovesIn(moves, label, ph) ==
    {k \in 1..Len(moves) : /\ moves[k].is_user_move
                            /\ moves[k].classification = label
                            /\ PhaseOf(moves[k]) = ph}
RECURSIVE SumOver(_, _)
SumOver(f, S) ==
    IF S = {} THEN 0
    ELSE LET x == CHOOSE y \in S : TRUE IN f[x] + SumOver(f, S \ {x})

\* C18: each counter of gamePhaseBreakdown is the number of the user's moves
\* classified blunder (mistake) in that phase; opponent moves count nowhere
\* and the blunder counters sum to the user's blunders.
C18_PhaseBreakdown ==
    fn.op = "generateSummary" =>
        LET b == fn.out.gamePhaseBreakdown
        IN  /\ \A ph \in Phases :
                  /\ b[ph].blunders = Cardinality(UserMovesIn(fn.arg, "blunder", ph))
                  /\ b[ph].mistakes = Cardinality(UserMovesIn(fn.arg, "mistake", ph))
            /\ SumOver([ph \in Phases |-> b[ph].blunders], Phases)
                  = Carrying(fn.arg, TRUE, "blunder")

\* A user blunder with twelve pieces left after move 10, next to an
\* opponent blunder.
C18_EndgameBlunder ==
    /\ fn.op = "generateSummary"
    /\ fn.out.gamePhaseBreakdown["endgame"].blunders = 1
    /\ fn.out.gamePhaseBreakdown["opening"].blunders = 0
    /\ Carrying(fn.arg, FALSE, "blunder") = 1

----------------------------------------------------------------------------
\* The dispatch policy of evaluate() and the queues.

\* The step in which evaluate() is called for request r on an initialized pool.
EvaluateStep(r) == initialized /\ req[r].st = "new" /\ req'[r].st # "new"

\* C21: evaluate() on an initialized pool starts the request at once on the
\* first instance in pool order whose busy flag is false; only when every
\* instance is busy does it append the request to the queue of the first
\* instance of the pool, whatever the length of that queue.
C21_FirstIdleElseFirstQueue ==
    [][\A r \in Reqs : EvaluateStep(r) =>
          LET idle == {k \in 1..Len(instances) : ~busy[instances[k]]}
          IN  IF idle # {}
              THEN LET i == instances[MinOf(idle)]
                   IN  /\ req'[r].st = "running" /\ req'[r].inst = i
                       /\ req'[r].timer
                       /\ busy' = [busy EXCEPT ![i] = TRUE]
                       /\ goPending' = [goPending EXCEPT ![i] = Append(@, r)]
                       /\ queue' = queue
              ELSE /\ req'[r].st = "queued" /\ req'[r].inst = instances[1]
                   /\ queue' = [queue EXCEPT ![instances[1]] = Append(@, r)]
                   /\ busy' = busy
                   /\ goPending' = goPending
      ]_vars

\* Three requests wait behind the first instance while the second instance,
\* busy when they arrived, holds an empty queue.
C21_QueuedBehindFirst ==
    /\ initialized
    /\ Len(queue[instances[1]]) >= 3
    /\ busy[instances[2]] /\ queue[instances[2]] = <<>>

\* The instances of the pool after the first one in pool order.
NotFirst == {instances[k] : k \in 2..Len(instances)}

\* The step in which request q, running on instance i, completes or times out.
EndsOn(q, i) ==
    /\ req[q].inst = i
    /\ req[q].st = "running"
    /\ req'[q].resolves + req'[q].rejects > req[q].resolves + req[q].rejects

\* C22: the queue of every instance other than the first one in pool order
\* is empty in every reachable state; a queued request is started only by a
\* completion or timeout on the first instance of the pool, and a completion
\* on another instance leaves every queue as it is.
C22_OnlyFirstInstanceQueues ==
    /\ [](instances # <<>> =>
            \A i \in Insts \ {instances[1]} : queue[i] = <<>>)
    /\ [][/\ \A r \in Reqs :
                (req[r].st = "queued" /\ req'[r].st = "running" /\ instances # <<>>) =>
                    /\ req[r].inst = instances[1]
                    /\ \E q \in Reqs : EndsOn(q, instances[1])
          /\ \A i \in NotFirst :
                (\E q \in Reqs : EndsOn(q, i)) => queue' = queue
         ]_vars

\* C23: between callbacks every instance whose busy flag is false has an
\* empty queue: no request waits behind an instance that is idle.
C23_IdleMeansEmptyQueue ==
    \A i \in Insts : ~busy[i] => queue[i] = <<>>

\* An instance is idle again after it has served two requests from its queue.
C23_IdleAfterQueue ==
    \E i \in Insts :
        /\ ~busy[i] /\ queue[i] = <<>>
        /\ Cardinality({r \in Reqs : req[r].viaQueue /\ req[r].inst = i
                                       /\ req[r].st = "done"}) >= 2

\* The step in which runEvaluation is called for request r on instance i.
StartsOn(r, i) ==
    req[r].st # "running" /\ req'[r].st = "running" /\ req'[r].inst = i

\* C24: once shutdown() has sent quit to an instance and killed its process,
\* no evaluation is started on that instance again, neither for a request
\* that was queued on it nor for any other, and its busy flag is not set
\* again.
C24_ShutdownIsTerminal ==
    [][\A i \in Insts :
          (killed[i] /\ quitSent[i]) =>
              /\ \A r \in Reqs : ~StartsOn(r, i)
              /\ ~busy[i] => ~busy'[i]
      ]_vars

----------------------------------------------------------------------------
\* The UCI handshake.

RECURSIVE Flat(_, _)
\* The text of the first k chunks.
Flat(chunks, k) == IF k = 0 THEN <<>> ELSE Flat(chunks, k - 1) \o chunks[k]

\* The commands written to stdin, in order.
Commands(h) == [k \in 1..Len(h.wrote) |-> h.wrote[k].cmd]

\* C25: an instance is handed over as ready only after uci was written, uciok
\* was seen, setoption Threads, setoption Hash and isready were written, in
\* that order, and readyok was seen after that; the configuration sequence is
\* written at most once in a handshake, for every engine output and every
\* way it is cut into chunks.
C25_HandshakeOrder ==
    /\ Len(hs.wrote) <= 4
    /\ hs.promise = "resolved" =>
          /\ Commands(hs) = <<"uci", "setoption name Threads value 1",
                              "setoption name Hash value 128", "isready">>
          /\ Includes(Flat(hs.chunks, hs.wrote[4].at), UciOk)
          /\ hs.wrote[4].at <= hs.readyAt
          /\ Includes(Flat(hs.chunks, hs.readyAt), ReadyOk)

----------------------------------------------------------------------------
\* The discovery of the engine binary.

StateOf(k) == loc.p[k].st
Candidates == 1..NumPaths

\* The step in which the probe of candidate k is rejected by onError.
FailsByError(k) ==
    /\ StateOf(k) = "probing"
    /\ loc'.p[k].st = "failed"
    /\ ~loc'.p[k].killed

\* The candidates whose write of 'uci' throws.
WriteThrows(k) == loc.stdin[k] = "throws"

\* C26: candidates are probed one at a time in list order; a candidate whose
\* process reports an error or writes to stderr before it writes to stdout
\* fails without raising to the caller and the next candidate is probed (and
\* the one after it when the write to that one throws, and so on); the
\* first candidate that writes to stdout is returned and no candidate after
\* it is spawned.
C26_ProbeInListOrder ==
    /\ [](/\ {k \in Candidates : StateOf(k) # "unspawned"} = 1..loc.cand
          /\ Cardinality({k \in Candidates : StateOf(k) = "probing"}) <= 1
          /\ \A k \in Candidates :
                StateOf(k) = "returned" =>
                    /\ loc.spawnedProcess = k /\ loc.result = "returned"
                    /\ \A j \in 1..(k - 1) : StateOf(j) = "failed"
                    /\ \A j \in (k + 1)..NumPaths : StateOf(j) = "unspawned")
    /\ [][/\ \A k \in 1..(NumPaths - 1) :
                FailsByError(k) =>
                    LET next == loc'.cand
                    IN  /\ next > k
                        /\ \A j \in (k + 1)..(next - 1) :
                              WriteThrows(j) /\ loc'.p[j].st = "failed"
                        /\ \/ loc'.p[next].st = "probing" /\ loc'.result = "none"
                           \/ /\ next = NumPaths /\ WriteThrows(next)
                              /\ loc'.p[next].st = "failed"
                              /\ loc'.result = "thrown"
          /\ \A k \in Candidates :
                (StateOf(k) = "probing" /\ loc.p[k].listening
                   /\ loc'.p[k].hasResponded /\ ~loc.p[k].hasResponded) =>
                    loc'.p[k].st = "returned"
         ]_vars

\* The first candidate wrote to stderr, the write to the second threw and
\* the third, which wrote to stdout, was returned.
C26_ThirdCandidateReturned ==
    /\ StateOf(1) = "failed" /\ StateOf(2) = "failed"
    /\ StateOf(3) = "returned"
    /\ ~loc.p[1].killed /\ ~loc.p[2].killed
    /\ loc.lastError = [cand |-> 2, kind |-> "write"]

\* C27: every candidate that is declared failed, by a process error, by
\* stderr output or by the 1 s timer, has its process killed before the next
\* candidate is spawned; no failed candidate's process is left running.
C27_FailedIsKilledFirst ==
    /\ [](\A k \in Candidates : StateOf(k) = "failed" => loc.p[k].killed)
    /\ [][\A k \in 1..(NumPaths - 1) :
              (StateOf(k + 1) = "unspawned" /\ loc'.p[k + 1].st = "probing")
                  => loc'.p[k].killed
         ]_vars

\* C28: a probe is decided by the first of stdout data, stderr data or a
\* process error, and the 1 s timer, and is settled once: a candidate that
\* was returned because it wrote to stdout is not killed by its own timer
\* and is not turned into a failure by anything that happens later.
C28_ProbeSettledOnce ==
    /\ [](\A k \in Candidates : StateOf(k) = "returned" => ~loc.p[k].killed)
    /\ [][/\ \A k \in Candidates :
                /\ StateOf(k) \in {"returned", "failed"} => loc'.p[k].st = StateOf(k)
                /\ (StateOf(k) = "probing" /\ loc'.p[k] # loc.p[k])
                       => loc'.p[k].st \in {"returned", "failed"}
          /\ loc.result = "returned" =>
                /\ loc'.result = "returned"
                /\ loc'.spawnedProcess = loc.spawnedProcess
         ]_vars

\* The second candidate was returned and its 1 s timer has fired since.
C28_TimerAfterReturn ==
    /\ StateOf(2) = "returned" /\ loc.result = "returned"
    /\ ~loc.p[2].timer /\ ~loc.p[2].killed
    /\ StateOf(1) = "failed" /\ loc.p[1].killed

\* C29: the type and value a request resolves with are those of the last
\* info line before the bestmove line that reports a depth of at least
\* depth - 2 and carries a score; info lines of a lower depth change nothing
\* of the result, and the resolved bestMove is the move of the bestmove line,
\* however the line reaches onData.
C29_LastDeepScoredLine ==
    (fn.op = "onData" /\ fn.out.promise = "resolved") =>
        /\ fn.out.result.bestMove = Announced(fn.arg)
        /\ Scored(fn.arg) # {} =>
              LET l == fn.arg.lines[MaxOf(Scored(fn.arg))]
                  raw == ParseInt(l[ScoreAt(l) + 2])
              IN  /\ fn.out.result.type = l[ScoreAt(l) + 1]
                  /\ fn.out.result.value \in {raw, 0 - raw}

\* The text a is the beginning of the text b.
IsPrefix(a, b) == Len(a) <= Len(b) /\ SubSeq(b, 1, Len(a)) = a

\* What a request resolves with when the stream reaches its onData as one
\* chunk.
WholeStream(stream, side) ==
    LET E == RunEvaluationText([NoEngine EXCEPT !.run[1].side = side], 1)
    IN  OnDataText(E, 1, stream).run[1].result

\* C30: for a fixed stream of engine output the evaluation a request
\* resolves with is the same for every way of cutting the stream into
\* chunks: a request whose onData has seen the beginning of the engine's
\* answer to it, and nothing else, has not thrown, and when it is resolved
\* it is resolved with the evaluation of the answer delivered as one chunk.
C30_ChunkingIrrelevant ==
    \A r \in Runs :
        (eng.run[r].output # <<>> /\ IsPrefix(eng.run[r].output, eng.run[r].answer)) =>
            /\ ~eng.run[r].threw
            /\ eng.run[r].promise = "resolved" =>
                  eng.run[r].result = WholeStream(eng.run[r].answer, eng.run[r].side)

----------------------------------------------------------------------------
\* The centipawn loss of a row.

\* C11: every row of the analysis pipeline has cp_loss = max(0, eval_before -
\* eval_after) on an odd ply (White moved) and max(0, eval_after - eval_before)
\* on an even ply (Black moved), where eval_before is White's evaluation of
\* the position before the move and eval_after the one of the next row; so
\* cp_loss is never negative and a move that improves the mover's evaluation
\* has cp_loss 0.
C11_CpLossFormula ==
    fn.op = "scoreMoves" =>
        \A i \in DOMAIN fn.out :
            LET row == fn.out[i]
                gain == IF row.ply % 2 = 1 THEN row.eval_after - row.eval_before
                        ELSE row.eval_before - row.eval_after
            IN  /\ row.cp_loss >= 0
                /\ gain >= 0 => row.cp_loss = 0
                /\ gain < 0 => row.cp_loss = -gain
                /\ i < Len(fn.out) => row.eval_after = fn.out[i + 1].eval_before
                /\ (row.eval_before > 0) = (fn.arg[i].evaluation.value > 0)
                /\ (row.eval_before < 0) = (fn.arg[i].evaluation.value < 0)

\* A game where White loses 150 centipawns on ply 1 and Black's reply on
\* ply 2 improves Black's evaluation.
C11_BlackImproves ==
    /\ fn.op = "scoreMoves"
    /\ Len(fn.out) >= 3
    /\ fn.out[1].eval_before = 30 /\ fn.out[1].eval_after = -120
    /\ fn.out[1].cp_loss = 150
    /\ fn.out[2].eval_after < fn.out[2].eval_before
    /\ fn.out[2].cp_loss = 0

----------------------------------------------------------------------------
\* The records of analyzeGame.

\* The UCI tokens of the moves of a game, as written out by hand.
UciTokens == <<"e2e4", "e8d7", "b7b8q", "e2e4", "e8d7", "b7b8q">>

\* The position of a game before its ply k.
PositionBefore(pgn, k) == [start |-> pgn.start, played |-> k - 1]

\* C12: for a parsed game of n plies analyzeGame asks one evaluation per ply,
\* for the position before the move of that ply, and returns n records in
\* play order with ply 1..n, moveNumber floor((ply - 1) / 2) + 1, fen the
\* position before the move, the UCI token from + to + promotion letter, and
\* isUserMove true exactly when the mover (White on odd plies) is userColor.
C12_OneRecordPerPly ==
    (ag.pgn.ok /\ ag.pc = "returned") =>
        /\ Len(ag.results) = ag.pgn.n
        /\ Len(ag.asked) = ag.pgn.n
        /\ ag.issued = ag.pgn.n
        /\ \A k \in 1..ag.pgn.n :
              LET rec == ag.results[k]
                  mover == IF k % 2 = 1 THEN "white" ELSE "black"
              IN  /\ ag.asked[k] = PositionBefore(ag.pgn, k)
                  /\ rec.ply = k
                  /\ rec.moveNumber = ((k - 1) \div 2) + 1
                  /\ rec.fen = PositionBefore(ag.pgn, k)
                  /\ rec.movePlayedUci = UciTokens[k]
                  /\ rec.isUserMove = (mover = ag.color)

----------------------------------------------------------------------------
\* Properties of analyzeGame.

\* C10: on a text that chess.js cannot parse analyzeGame rejects before it
\* asks for any evaluation, and returns no records.
C10_BadPgnFailsFirst ==
    (ag.pc # "idle" /\ ~ag.pgn.ok) =>
        /\ ag.pc = "rejected"
        /\ ag.issued = 0
        /\ ag.results = <<>>
        /\ ~ag.returned

\* A text with legal moves before the token that is no move was rejected.
C10_BadPgnRejected ==
    ag.pc = "rejected" /\ ~ag.pgn.ok /\ ag.pgn.n > 0

----------------------------------------------------------------------------
\* The deadline timers.

\* C31: each of the three deadline timers (1 s discovery probe, 30 s
\* handshake, 30 s evaluation) is cancelled when the step it guards succeeds,
\* so that after a successful step no timer armed for it is still pending.
\* Stated for the first of the three: a candidate whose probe has returned
\* its process has no 1 s timer pending.
C31_TimerClearedOnSuccess ==
    \A k \in 1..NumPaths : loc.p[k].st = "returned" => ~loc.p[k].timer

----------------------------------------------------------------------------
\* Process errors of pool instances.

\* C32: an instance whose process reports an error after it joined the pool
\* is removed from the pool's instance list, and evaluate() never starts or
\* queues a later request on it.
C32_ErroredInstanceIsRemoved ==
    /\ [](\A i \in Insts : procError[i] => ~InSeq(i, instances))
    /\ [][\A r \in Reqs : EvaluateStep(r) => ~procError[req'[r].inst]]_vars

----------------------------------------------------------------------------
\* Mate evaluations in the rows of the analysis table.

\* The records whose mate evaluations are written as centipawn evaluations
\* of 10000 times the mate count.
MatesAsCentipawns(records) ==
    [i \in DOMAIN records |->
        [records[i] EXCEPT !.evaluation =
            [@ EXCEPT !.type = "cp",
                      !.value = IF records[i].evaluation.type = "mate"
                                THEN 10000 * @ ELSE @]]]

\* C33: an evaluation of type mate with signed value m enters the row as
\* m x 10000 and one of type cp as its value, for the evaluation before the
\* move and for the one after it; cp_loss and the classification are computed
\* from these numbers, and nothing after the conversion depends on the type:
\* the rows are those of the same records with every mate evaluation written
\* as a centipawn evaluation of m x 10000.
C33_MateTimesTenThousand ==
    fn.op = "scoreMoves" =>
        /\ \A i \in DOMAIN fn.out :
              LET e == fn.arg[i].evaluation
                  n == IF i < Len(fn.arg) THEN fn.arg[i + 1].evaluation ELSE e
                  row == fn.out[i]
              IN  /\ e.type = "mate" => row.eval_before = e.value * 10000
                  /\ e.type = "cp" => row.eval_before = e.value
                  /\ n.type = "mate" => row.eval_after = n.value * 10000
                  /\ n.type = "cp" => row.eval_after = n.value
                  /\ row.cp_loss =
                        CpLoss(row.eval_before, row.eval_after, row.ply % 2 = 1)
                  /\ row.classification =
                        ClassifyMove(row.cp_loss,
                                     LowerTrim(fn.arg[i].movePlayedUci)
                                         = LowerTrim(e.bestMove),
                                     row.eval_before, row.eval_after,
                                     row.ply % 2 = 1)
        /\ fn.out = ScoreMoves(MatesAsCentipawns(fn.arg))

\* White, 30 centipawns ahead, is mated in two after the move: the row holds
\* 30 and -20000, a loss of 20030, a blunder.
C33_CpThenMate ==
    /\ fn.op = "scoreMoves"
    /\ Len(fn.out) >= 2
    /\ fn.arg[1].evaluation.type = "cp" /\ fn.arg[1].evaluation.value = 30
    /\ fn.arg[2].evaluation.type = "mate" /\ fn.arg[2].evaluation.value = -2
    /\ fn.out[1].eval_before = 30 /\ fn.out[1].eval_after = -20000
    /\ fn.out[1].cp_loss = 20030
    /\ fn.out[1].classification = "blunder"
    /\ fn.out[2].eval_before = -20000


\* C34: when the mover has a forced mate in N (N >= 2) before the move and a
\* forced mate in N - 1 after it, the move's cp_loss is 0 and it is not
\* classified blunder, mistake or inaccuracy. The mate counts are White's:
\* positive when White mates, negative when Black does.
C34_MateProgressIsNoLoss ==
    fn.op = "scoreMoves" =>
        \A i \in 1..(Len(fn.out) - 1) :
            LET before == fn.arg[i].evaluation
                after == fn.arg[i + 1].evaluation
                sign == IF fn.out[i].ply % 2 = 1 THEN 1 ELSE -1
            IN  (/\ before.type = "mate" /\ after.type = "mate"
                 /\ sign * before.value >= 2
                 /\ sign * after.value = sign * before.value - 1)
                    => /\ fn.out[i].cp_loss = 0
                       /\ fn.out[i].classification
                              \notin {"blunder", "mistake", "inaccuracy"}

----------------------------------------------------------------------------
\* The requests of one analyzeGame call.

\* C35: one analyzeGame call has at most one evaluation request outstanding:
\* it issues the request for a ply only when the requests of all earlier
\* plies have resolved and their records are pushed, and once a request has
\* rejected it issues no further request, stays rejected and returns no
\* records.
C35_OneRequestAtATime ==
    /\ [](LET open == ag.issued - Len(ag.results)
          IN  /\ open \in {0, 1}
              /\ ag.pc = "await" => open = 1
              /\ open = 1 => ag.pc \in {"await", "rejected"}
              /\ ag.pc = "rejected" => ~ag.returned)
    /\ [][/\ ag'.issued # ag.issued =>
                /\ ag'.issued = ag.issued + 1
                /\ Len(ag'.results) = ag.issued
                /\ ag'.pc = "await"
          /\ ag.pc = "rejected" =>
                /\ ag'.issued = ag.issued
                /\ ag'.pc = "rejected"
                /\ ~ag'.returned
         ]_vars

\* The request for the second ply rejected after the first had resolved.
C35_SecondRequestRejected ==
    /\ ag.pc = "rejected"
    /\ ag.pgn.ok /\ ag.pgn.start = "standard" /\ ag.pgn.n >= 3
    /\ ag.issued = 2
    /\ Len(ag.results) = 1
    /\ ~ag.returned

----------------------------------------------------------------------------
\* triggerAnalysis and the analysis table.

\* The invocations of triggerAnalysis.
Triggered == {c \in Trigs : ta.call[c].kind = "trigger" /\ ta.call[c].pc # "idle"}

\* The step is one in which the analyzeGame call of invocation c returned
\* one record per ply of the game.
ReturnsAllPlies(c) ==
    /\ ta.call[c].a.pc # "returned"
    /\ ta'.call[c].a.pc = "returned"
    /\ ta'.call[c].a.issued = ta.pgn.n
    /\ Len(ta'.call[c].a.results) = ta.pgn.n

\* C36: if an evaluation request rejects while an invocation of
\* triggerAnalysis analyses a game, that invocation fails, it inserts no
\* analysis row of the game and it does not mark the game analyzed; rows are
\* inserted, and an invocation marks the game, only in the step in which the
\* evaluation of the last ply has resolved and its analyzeGame has returned
\* one record per ply, whatever other invocations are under way.
C36_NoRowsUnlessAllEvaluated ==
    /\ [](\A c \in Triggered :
            ta.call[c].a.pc = "rejected" =>
                /\ ta.call[c].pc = "failed"
                /\ ta.call[c].inserted = 0
                /\ ~ta.call[c].marked)
    /\ [][/\ ta'.rows # ta.rows =>
                \E c \in Trigs :
                    /\ ta'.call[c].kind = "trigger"
                    /\ ReturnsAllPlies(c)
                    /\ Len(ta'.rows) = ta.pgn.n
                    /\ ta'.call[c].inserted = ta.pgn.n
          /\ \A c \in Trigs :
                (ta'.call[c].kind = "trigger"
                    /\ (ta'.call[c].marked # ta.call[c].marked
                        \/ ta'.call[c].inserted # ta.call[c].inserted)) =>
                    /\ ReturnsAllPlies(c)
                    /\ ta'.analyzed
         ]_vars

\* The evaluation of the third ply rejected in the first invocation after two
\* had resolved, and a second invocation has inserted the rows of the game:
\* the first has failed and has inserted nothing.
C36_ThirdEvaluationRejected ==
    /\ ta.call[1].kind = "trigger"
    /\ ta.call[1].pc = "failed"
    /\ ta.pgn.ok /\ ta.pgn.start = "standard"
    /\ ta.call[1].a.issued = 3
    /\ Len(ta.call[1].a.results) = 2
    /\ ta.call[1].inserted = 0
    /\ ~ta.call[1].marked
    /\ ta.call[2].pc = "done"
    /\ ta.call[2].inserted = ta.pgn.n

----------------------------------------------------------------------------
\* The row of the last ply.

\* C37: in the row of the final ply of an analysed game eval_after equals
\* eval_before and cp_loss is 0, and the move is classified best when the
\* played move is the engine's best move (compared in lower case, trimmed)
\* and excellent otherwise, whatever the engine reported.
C37_FinalPlyBestOrExcellent ==
    (fn.op = "scoreMoves" /\ fn.out # <<>>) =>
        LET last == Len(fn.out)
            row == fn.out[last]
            rec == fn.arg[last]
            isBestMove == LowerTrim(rec.movePlayedUci)
                              = LowerTrim(rec.evaluation.bestMove)
        IN  /\ row.eval_after = row.eval_before
            /\ row.cp_loss = 0
            /\ row.classification = IF isBestMove THEN "best" ELSE "excellent"

\* A game of three plies whose last move, not the engine's choice, leaves
\* White to be mated in two: the row is excellent, with both evaluations
\* -20000.
C37_LastMoveIntoMate ==
    /\ fn.op = "scoreMoves"
    /\ Len(fn.out) = 3
    /\ fn.arg[3].evaluation = [type |-> "mate", value |-> -2, bestMove |-> "e2e4"]
    /\ fn.arg[3].movePlayedUci # "e2e4"
    /\ fn.out[3].eval_before = -20000 /\ fn.out[3].eval_after = -20000
    /\ fn.out[3].cp_loss = 0
    /\ fn.out[3].classification = "excellent"

----------------------------------------------------------------------------
\* Brilliant and great moves.

\* C38: every row classified brilliant or great has cp_loss 0, and its
\* played move equals the engine's best move for the position before the
\* move, both in lower case and trimmed.
C38_BrilliantIsBestWithoutLoss ==
    fn.op = "scoreMoves" =>
        \A i \in DOMAIN fn.out :
            fn.out[i].classification \in {"brilliant", "great"} =>
                /\ fn.out[i].cp_loss = 0
                /\ LowerTrim(fn.arg[i].movePlayedUci)
                       = LowerTrim(fn.arg[i].evaluation.bestMove)
                /\ fn.out[i].best_move = fn.arg[i].evaluation.bestMove

\* White's brilliant move from 0 to 250 is answered by a great move of Black
\* from 250 to 30, the engine having written Black's move with a trailing
\* blank.
C38_BrilliantThenGreat ==
    /\ fn.op = "scoreMoves"
    /\ Len(fn.out) = 3
    /\ fn.out[1].eval_before = 0 /\ fn.out[1].eval_after = 250
    /\ fn.out[1].classification = "brilliant"
    /\ fn.out[2].eval_after = 30
    /\ fn.out[2].classification = "great"
    /\ fn.out[2].best_move = "e2e4 "
    /\ fn.out[1].cp_loss = 0 /\ fn.out[2].cp_loss = 0


====
